---- MODULE Spec2Model ----
(***************************************************************************)
(* A model of clawnboard's VM provisioner (FlyProvisioner) and of its      *)
(* health checker (HealthChecker).                                         *)
(*                                                                         *)
(* The health checker is modelled at the granularity of JavaScript's       *)
(* event loop: one action is the synchronous code between two awaits.      *)
(* Every running async call (a monitorVM registration, a timer-fired       *)
(* check) is a task with a program counter naming the await it is          *)
(* suspended at.  HealthStatus objects live in a heap, because a check     *)
(* keeps a reference to the object it read from the statuses map across    *)
(* its later awaits.                                                       *)
(***************************************************************************)
EXTENDS Integers, Sequences, FiniteSets, TLC

(***************************************************************************)
(* Bounds of the health-checker model.                                     *)
(***************************************************************************)
\* monitorVM registrations begun (each allocates at most one HealthStatus
\* object and one timer handle)
MaxRegs == 2
\* check results applied to one HealthStatus object
MaxChecks == 3
\* subscribers per event (onUnhealthy, onHealthy)
MaxSubs == 2
LifecycleSubs == 1
\* largest configured failureThreshold
MaxThreshold == 2
\* largest configured maxRestartAttempts
MaxRestartCfg == 2

VmIds == {"vm-1", "vm-2"}
\* the async calls of the health checker that can be in flight at once
Tasks == {1, 2}
Regs == 1..MaxRegs
Subs == 1..MaxSubs

VARIABLES
  \* ---- HealthChecker fields
  config,              \* this.config: failureThreshold, autoRestart, maxRestartAttempts
  statuses,            \* this.statuses: vmId -> reference to a HealthStatus (0: no entry)
  heap,                \* the HealthStatus objects, by reference
  intervals,           \* this.intervals: vmId -> timer handle (0: no entry)
  unhealthyCallbacks,  \* this.unhealthyCallbacks.length
  healthyCallbacks,    \* this.healthyCallbacks.length
  \* ---- the JavaScript runtime
  timers,              \* handles of the setInterval timers not yet cleared
  timerVm,             \* the vmId each timer's closure captured
  nregs,               \* registrations begun
  tasks,               \* the async calls in flight
  monitoring,          \* a call of startMonitoring: its ids, the one
                       \*   whose monitorVM it awaits, and how it ended
  healthCheck,         \* a direct call of checkHealth: the answers its
                       \*   collaborators give it, and what it returned
  \* ---- the log and the observation of calls
  warned,              \* ids for which "already being monitored" was logged
  stopped,             \* ids stopped and with no monitorVM call since
  obs                  \* per HealthStatus object, what was observed of it:
                       \*   history: the results applied to it, in order
                       \*   unhealthyCalls, healthyCalls: invocations per subscriber
                       \*   restartCalls: restartMoltbot calls since its last success
                       \*   rejected: one of those calls was rejected

hcVars == <<config, statuses, heap, intervals, unhealthyCallbacks, healthyCallbacks,
            timers, timerVm, nregs, tasks, monitoring, healthCheck, warned,
            stopped, obs>>

(***************************************************************************)
(* The provisioner.  FlyProvisioner keeps no state of its own besides its  *)
(* configuration: its state is the remote Fly.io account, and the position *)
(* of each of its async calls.  Strings the code computes with (instance   *)
(* names, application names, the hidden_snapshots metadata value) are      *)
(* sequences, so that prefixing, startsWith, slice, join and split are     *)
(* computed as the code computes them.                                     *)
(***************************************************************************)
\* crypto.randomUUID() values generated (one per create or deploy that
\* reaches step 4)
MaxUuids == 2
\* snapshots ever created in the account
MaxSnapshots == 2
\* polls of waitForState before its timeout elapses
MaxPolls == 2

\* const MOLTBOT_APP_PREFIX = "moltbot-"
MOLTBOT_APP_PREFIX == <<"m", "o", "l", "t", "b", "o", "t", "-">>

\* installSudoAccess: const maxRetries = 10
maxRetries == 10

\* deployFromSnapshot: size_gb of the volume forked from the snapshot
LegacyVolumeGb == 5

\* createMoltbot: createVolume(appName, volumeName, 20); deployFromSnapshot:
\* the extend request's size_gb
DefaultVolumeGb == 20

\* String.prototype.startsWith
StartsWith(s, p) == Len(s) >= Len(p) /\ SubSeq(s, 1, Len(p)) = p

\* String.prototype.slice(k)
Slice(s, k) == SubSeq(s, k + 1, Len(s))

\* createMoltbot, deployFromSnapshot: `${MOLTBOT_APP_PREFIX}${config.name}`
CreateAppName(name) == MOLTBOT_APP_PREFIX \o name

\* every other operation: moltbotName.startsWith(MOLTBOT_APP_PREFIX)
\*   ? moltbotName : `${MOLTBOT_APP_PREFIX}${moltbotName}`
AppNameOf(moltbotName) ==
  IF StartsWith(moltbotName, MOLTBOT_APP_PREFIX)
    THEN moltbotName
    ELSE MOLTBOT_APP_PREFIX \o moltbotName

\* instance names that pass the route's schema (/^[a-z0-9-]+$/, 1..50
\* characters): a plain one, and one that itself begins with the prefix
Names == {<<"a">>, MOLTBOT_APP_PREFIX \o <<"a">>}

\* the characters of /^[a-z0-9-]+$/
SlugChars ==
  {"a", "b", "c", "d", "e", "f", "g", "h", "i", "j", "k", "l", "m", "n", "o",
   "p", "q", "r", "s", "t", "u", "v", "w", "x", "y", "z", "0", "1", "2", "3",
   "4", "5", "6", "7", "8", "9", "-"}

\* createMoltbotSchema's name: z.string().min(1).max(50).regex(/^[a-z0-9-]+$/)
IsSlug(name) ==
  /\ Len(name) >= 1
  /\ Len(name) <= 50
  /\ \A i \in 1..Len(name) : name[i] \in SlugChars

\* the applications these names can reach
AppNames == {CreateAppName(n) : n \in Names} \cup {AppNameOf(n) : n \in Names}

\* the order in which the apps query lists applications
AppOrder == <<CreateAppName(<<"a">>), CreateAppName(MOLTBOT_APP_PREFIX \o <<"a">>)>>

SnapshotIds == 1..MaxSnapshots

\* the provisioner's callers: each has one call in flight at a time, and
\* the calls of two callers can overlap
Callers == {1, 2}

\* the caller of the specifications in which a call begins after the
\* previous one has settled
Sequential == {1}

\* the separator of the hidden_snapshots metadata value; a snapshot id is
\* one symbol k > 0 of the value
Comma == 0

\* Array.prototype.join(",")
RECURSIVE Join(_)
Join(list) ==
  IF Len(list) = 0 THEN <<>>
  ELSE IF Len(list) = 1 THEN <<list[1]>>
  ELSE <<list[1], Comma>> \o Join(Tail(list))

\* String.prototype.split(",").filter(Boolean): the non-empty pieces between
\* separators (a piece is one id here, as ids hold no comma)
Split(str) == SelectSeq(str, LAMBDA x : x # Comma)

\* Array.prototype.includes
Includes(list, x) == \E i \in 1..Len(list) : list[i] = x

Elements(list) == {list[i] : i \in 1..Len(list)}

VARIABLES
  \* ---- the remote account
  fly,                 \* application name -> the application's resources
  machineIds,          \* machine ids allotted by Fly.io
  snapshotIds,         \* snapshot ids allotted by Fly.io
  \* ---- the provisioner process
  uuids,               \* crypto.randomUUID() values generated
  calls,               \* caller -> its provisioner call in flight or just ended
  \* ---- observation of calls
  pobs                 \* prev: the call that ended before the present one
                       \* created: name -> application its create or deploy made
                       \* hiddenOk: name -> ids for which hideSnapshot resolved
                       \* destroyed: names for which destroyMoltbot resolved,
                       \*   until a create or deploy for the name is called

provVars == <<fly, machineIds, snapshotIds, uuids, calls, pobs>>

vars == <<hcVars, provVars>>

\* the values of environment variables, by where they come from: none, a
\* literal of createMoltbot, the k-th crypto.randomUUID() value, or a value
\* the caller put into config.env
Unset == [from |-> "", v |-> 0]
Literal == [from |-> "literal", v |-> 0]
Generated(k) == [from |-> "randomUUID", v |-> k]
Supplied == [from |-> "config.env", v |-> 0]

\* config.env of a caller that passes none; the variables are NODE_ENV (one
\* of createMoltbot's literals), OPENCLAW_GATEWAY_TOKEN and
\* ANTHROPIC_API_KEY (one of the provider keys the route passes)
NoEnv ==
  [NODE_ENV |-> Unset, OPENCLAW_GATEWAY_TOKEN |-> Unset,
   ANTHROPIC_API_KEY |-> Unset]

\* the config.env values createMoltbot is called with
CallerEnvs ==
  {NoEnv,
   [NoEnv EXCEPT !.ANTHROPIC_API_KEY = Supplied],
   [NoEnv EXCEPT !.ANTHROPIC_API_KEY = Supplied,
                 !.OPENCLAW_GATEWAY_TOKEN = Supplied]}

\* {...own, ...env}: a variable of env replaces the one of own
Spread(own, env) ==
  [NODE_ENV |->
     IF env.NODE_ENV # Unset THEN env.NODE_ENV ELSE own.NODE_ENV,
   OPENCLAW_GATEWAY_TOKEN |->
     IF env.OPENCLAW_GATEWAY_TOKEN # Unset
       THEN env.OPENCLAW_GATEWAY_TOKEN ELSE own.OPENCLAW_GATEWAY_TOKEN,
   ANTHROPIC_API_KEY |->
     IF env.ANTHROPIC_API_KEY # Unset
       THEN env.ANTHROPIC_API_KEY ELSE own.ANTHROPIC_API_KEY]

\* machineConfig.env of createMoltbot
MachineEnv(gatewayToken, env) ==
  Spread([NODE_ENV |-> Literal,
          OPENCLAW_GATEWAY_TOKEN |-> Generated(gatewayToken),
          ANTHROPIC_API_KEY |-> Unset], env)

\* the configuration of a machine: image, env, guest size, mounts, services
\* and checks
NoConfig ==
  [image |-> "", env |-> NoEnv, guest |-> "", mounts |-> "", services |-> "",
   checks |-> ""]

LatestImage == "ghcr.io/openclaw/openclaw:latest"

\* createMoltbot's machineConfig
MachineConfig(image, gatewayToken, env) ==
  [image |-> image, env |-> MachineEnv(gatewayToken, env), guest |-> "2gb", mounts |-> "/data",
   services |-> "tcp 3000", checks |-> "httpget"]

NoApp ==
  [exists |-> FALSE, ip |-> FALSE, volumeGb |-> 0, machine |-> 0,
   machineName |-> <<>>, state |-> "", token |-> 0, hidden |-> <<>>,
   snapshots |-> {}, config |-> NoConfig]

\* the effects of the remote requests on an application
FlyCreateApp(app) == [NoApp EXCEPT !.exists = TRUE]
FlyAllocateIp(app) == [app EXCEPT !.ip = TRUE]

\* a volume request that asks for the default size whatever its size_gb
FlySetVolumeToDefault(app, gb) == [app EXCEPT !.volumeGb = DefaultVolumeGb]

FlySetVolume(app, gb) == [app EXCEPT !.volumeGb = gb]

FlyCreateMachine(app, id, name) ==
  [app EXCEPT !.machine = id, !.machineName = name, !.state = "created"]
FlySetToken(app, token) == [app EXCEPT !.token = token]
FlySetConfig(app, machineConfig) == [app EXCEPT !.config = machineConfig]
FlySetHidden(app, value) == [app EXCEPT !.hidden = value]
FlyStarted(app) == [app EXCEPT !.state = "started"]
FlyAddSnapshot(app, id) == [app EXCEPT !.snapshots = @ \cup {id}]

\* the states of the remote API that mapFlyState knows
FlyStates == {"created", "starting", "started", "stopping", "stopped",
              "destroying", "destroyed"}

\* FlyProvisioner.mapFlyState
mapFlyState(flyState) == IF flyState \in FlyStates THEN flyState ELSE "stopped"

\* null, and MoltbotInstance without the fields no claim reads
NoInstance == [id |-> 0, name |-> <<>>, status |-> "", hostname |-> <<>>, gatewayToken |-> 0]

\* FlyProvisioner.mapMachineToInstance; gatewayToken is assigned by callers
mapMachineToInstance(machine, appName) ==
  [id |-> machine.machine,
   name |-> IF StartsWith(appName, MOLTBOT_APP_PREFIX)
              THEN Slice(appName, Len(MOLTBOT_APP_PREFIX))
              ELSE machine.machineName,
   status |-> mapFlyState(machine.state),
   hostname |-> appName,
   gatewayToken |-> 0]

(***************************************************************************)
(* What the health checker sees of its collaborators.                      *)
(***************************************************************************)
\* provisioner.getMoltbot(vmId): null, a rejection, or an instance
VmNull == [kind |-> "null", status |-> "", privateIp |-> FALSE]
VmThrows == [kind |-> "throws", status |-> "", privateIp |-> FALSE]
Vm(status, hasIp) == [kind |-> "vm", status |-> status, privateIp |-> hasIp]

\* fetch(`http://${vm.privateIp}:8080/health`): a 2xx answer whose body is
\* JSON, a 2xx answer whose body response.json() cannot parse, another
\* status, an abort by the timeout, or a connection error
GwOk == [kind |-> "ok", status |-> 200]
GwBadBody == [kind |-> "badbody", status |-> 200]
GwStatus(code) == [kind |-> "status", status |-> code]
GwAbort == [kind |-> "abort", status |-> 0]
GwError == [kind |-> "error", status |-> 0]

NoError == <<>>
NoResponse == "undefined"
HealthBody == "body"

\* a checkGateway for which every answer of the gateway is a success
CheckGatewayAnyAnswer(vm, gw) ==
  IF ~vm.privateIp
  THEN [reachable |-> FALSE, response |-> NoResponse,
        error |-> <<"No private IP assigned">>, probed |-> FALSE]
  ELSE IF gw.kind \in {"ok", "badbody", "status"}
       THEN [reachable |-> TRUE, response |-> HealthBody, error |-> NoError,
             probed |-> TRUE]
       ELSE [reachable |-> FALSE, response |-> NoResponse,
             error |-> <<"fetch failed">>, probed |-> TRUE]

\* HealthChecker.checkGateway
CheckGateway(vm, gw) ==
  IF ~vm.privateIp
  THEN [reachable |-> FALSE, response |-> NoResponse,
        error |-> <<"No private IP assigned">>, probed |-> FALSE]
  ELSE CASE gw.kind = "ok" ->
              [reachable |-> TRUE, response |-> HealthBody, error |-> NoError,
               probed |-> TRUE]
         [] gw.kind = "badbody" ->
              [reachable |-> FALSE, response |-> NoResponse,
               error |-> <<"Unexpected token in JSON">>, probed |-> TRUE]
         [] gw.kind = "status" ->
              [reachable |-> FALSE, response |-> NoResponse,
               error |-> <<"Gateway returned ", gw.status>>, probed |-> TRUE]
         [] gw.kind = "abort" ->
              [reachable |-> FALSE, response |-> NoResponse,
               error |-> <<"Gateway health check timed out">>, probed |-> TRUE]
         [] OTHER ->
              [reachable |-> FALSE, response |-> NoResponse,
               error |-> <<"fetch failed">>, probed |-> TRUE]

\* checkHealth with the status test left out: every instance found is probed
CheckHealthAlwaysProbes(vm, gw) ==
  CASE vm.kind = "throws" ->
         [healthy |-> FALSE, machineState |-> "unknown", gatewayReachable |-> FALSE,
          gatewayResponse |-> NoResponse, error |-> <<"provisioner error">>,
          probed |-> FALSE]
    [] vm.kind = "null" ->
         [healthy |-> FALSE, machineState |-> "not_found", gatewayReachable |-> FALSE,
          gatewayResponse |-> NoResponse, error |-> <<"VM not found">>,
          probed |-> FALSE]
    [] OTHER ->
         LET g == CheckGateway(vm, gw)
         IN  [healthy |-> g.reachable, machineState |-> vm.status,
              gatewayReachable |-> g.reachable, gatewayResponse |-> g.response,
              error |-> g.error, probed |-> g.probed]

\* HealthChecker.checkHealth
CheckHealth(vm, gw) ==
  CASE vm.kind = "throws" ->
         [healthy |-> FALSE, machineState |-> "unknown", gatewayReachable |-> FALSE,
          gatewayResponse |-> NoResponse, error |-> <<"provisioner error">>,
          probed |-> FALSE]
    [] vm.kind = "null" ->
         [healthy |-> FALSE, machineState |-> "not_found", gatewayReachable |-> FALSE,
          gatewayResponse |-> NoResponse, error |-> <<"VM not found">>,
          probed |-> FALSE]
    [] vm.kind = "vm" /\ vm.status # "started" ->
         [healthy |-> FALSE, machineState |-> vm.status, gatewayReachable |-> FALSE,
          gatewayResponse |-> NoResponse, error |-> <<"VM is in state: ", vm.status>>,
          probed |-> FALSE]
    [] OTHER ->
         LET g == CheckGateway(vm, gw)
         IN  [healthy |-> g.reachable, machineState |-> vm.status,
              gatewayReachable |-> g.reachable, gatewayResponse |-> g.response,
              error |-> g.error, probed |-> g.probed]

\* The answers getMoltbot gives to monitorVM, and the answers the
\* collaborators give to the checks, during monitoring.
HCVmAnswers == {VmNull, VmThrows, Vm("started", TRUE)}
HCCheckAnswers == {<<VmThrows, GwOk>>, <<Vm("started", TRUE), GwOk>>}

\* the distinct results of one check under those answers
HCResults == {CheckHealth(a[1], a[2]) : a \in HCCheckAnswers}

\* The answers the collaborators may give to a direct call of checkHealth:
\* every status of an instance, with and without a private address, and
\* every way the probe request can end.
MoltbotStatuses ==
  {"created", "starting", "started", "stopping", "stopped", "destroying", "destroyed"}
CheckVmAnswers ==
  {VmNull, VmThrows} \cup {Vm(st, ip) : st \in MoltbotStatuses, ip \in BOOLEAN}
CheckGwAnswers ==
  {GwOk, GwBadBody, GwStatus(404), GwStatus(503), GwAbort, GwError}

NoResult ==
  [healthy |-> FALSE, machineState |-> "", gatewayReachable |-> FALSE,
   gatewayResponse |-> NoResponse, error |-> NoError, probed |-> FALSE]

\* no direct call of checkHealth; one that has been called
NoCheck == [pc |-> "idle", vm |-> VmNull, gw |-> GwOk, result |-> NoResult]
Called(vm, gw) == [pc |-> "called", vm |-> vm, gw |-> gw, result |-> NoResult]

(***************************************************************************)
(* HealthStatus objects and tasks.                                         *)
(***************************************************************************)
Details(machineState, gatewayReachable, gatewayResponse, error) ==
  [machineState |-> machineState, gatewayReachable |-> gatewayReachable,
   gatewayResponse |-> gatewayResponse, error |-> error]

\* the object monitorVM stores (vmName and lastCheck, which only feed the
\* log, are left out)
NewStatus(vmId, vm) ==
  [vmId |-> vmId, healthy |-> TRUE, consecutiveFailures |-> 0, restartAttempts |-> 0,
   details |-> Details(IF vm.kind = "vm" THEN vm.status ELSE "unknown",
                       FALSE, NoResponse, NoError)]

NoStatus == NewStatus("", VmNull)

IdleTask ==
  [kind |-> "idle", vmId |-> "", pc |-> "idle", reg |-> 0, ref |-> 0, i |-> 0,
   threw |-> FALSE]

HasFreeTask == \E t \in Tasks : tasks[t].pc = "idle"
FreeTask == CHOOSE t \in Tasks :
              /\ tasks[t].pc = "idle"
              /\ \A u \in Tasks : tasks[u].pc = "idle" => t <= u

\* where a task goes when its performHealthCheck call returns: a timer's
\* callback ends, monitorVM goes on to setInterval
AfterCheck(task) ==
  IF task.kind = "monitor"
  THEN [task EXCEPT !.pc = "setInterval", !.ref = 0, !.i = 0, !.threw = FALSE]
  ELSE IdleTask

NoObs == [history |-> <<>>,
          unhealthyCalls |-> [s \in Subs |-> 0], healthyCalls |-> [s \in Subs |-> 0],
          restartCalls |-> 0, rejected |-> FALSE]

\* A HealthStatus object is reachable while the statuses map or a suspended
\* call refers to it.  An unreachable object can be neither read nor written
\* again: its slot (and what was observed of it) is cleared, so that states
\* differing only in garbage are one state.
Reachable(ref, sts, tks) ==
  \/ \E v \in VmIds : sts[v] = ref
  \/ \E t \in Tasks : tks[t].ref = ref

Collect(hp, sts, tks) ==
  [r \in Regs |-> IF Reachable(r, sts, tks) THEN hp[r] ELSE NoStatus]

CollectObs(ob, sts, tks) ==
  [r \in Regs |-> IF Reachable(r, sts, tks) THEN ob[r] ELSE NoObs]

\* the configurations of the constructor that are explored
Configs ==
  [failureThreshold : 1..MaxThreshold,
   autoRestart : BOOLEAN,
   maxRestartAttempts : 0..MaxRestartCfg]

\* the configuration under which the lifecycle (registration, timers,
\* stopping) is explored
LifecycleConfig ==
  [failureThreshold |-> 1, autoRestart |-> TRUE, maxRestartAttempts |-> 1]

\* no error thrown
NoFailure == [kind |-> "none", at |-> "", target |-> ""]

\* no provisioner call
IdleCall ==
  [op |-> "none", pc |-> "idle", name |-> <<>>, appName |-> <<>>,
   snapshotId |-> 0, machine |-> 0, token |-> 0, n |-> 0, todo |-> <<>>,
   hidden |-> <<>>, found |-> {}, step |-> 0, deleteIssued |-> FALSE,
   faulted |-> FALSE, outcome |-> "none", instance |-> NoInstance,
   listing |-> {}, target |-> "", actions |-> 0, error |-> NoFailure,
   cleanupFailed |-> FALSE, config |-> NoConfig, sent |-> NoConfig,
   sudoFailed |-> FALSE, listed |-> <<>>, skipped |-> {}, route |-> "",
   env |-> NoEnv]

NoPrev == [op |-> "none", name |-> <<>>, outcome |-> "none", instance |-> NoInstance]

NoPobs ==
  [prev |-> NoPrev,
   created |-> [n \in Names |-> <<>>],
   hiddenOk |-> [n \in Names |-> {}],
   destroyed |-> {}]

\* FlyProvisioner's constructor, with an empty account
ProvConstructed ==
  /\ fly = [a \in AppNames |-> NoApp]
  /\ machineIds = 0
  /\ snapshotIds = 0
  /\ uuids = 0
  /\ calls = [c \in Callers |-> IdleCall]
  /\ pobs = NoPobs

\* startMonitoring not called
NoMonitoring == [pc |-> "idle", ids |-> <<>>, k |-> 0, task |-> 0, outcome |-> ""]

\* HealthChecker's constructor, and the direct call of checkHealth made on
\* the object
ConstructedWith(cfg, check) ==
  /\ config = cfg
  /\ statuses = [v \in VmIds |-> 0]
  /\ heap = [r \in Regs |-> NoStatus]
  /\ intervals = [v \in VmIds |-> 0]
  /\ unhealthyCallbacks = 0
  /\ healthyCallbacks = 0
  /\ timers = {}
  /\ timerVm = [h \in Regs |-> ""]
  /\ nregs = 0
  /\ tasks = [t \in Tasks |-> IdleTask]
  /\ warned = {}
  /\ stopped = [v \in VmIds |-> FALSE]
  /\ obs = [r \in Regs |-> NoObs]
  /\ healthCheck = check
  /\ monitoring = NoMonitoring

Constructed(cfg) == ConstructedWith(cfg, NoCheck)

InitHC == Constructed(LifecycleConfig) /\ ProvConstructed

InitPolicy == (\E cfg \in Configs : Constructed(cfg)) /\ ProvConstructed

(***************************************************************************)
(* The health checker's operations.                                        *)
(***************************************************************************)
\* a guard that looks the id up in the statuses map instead
AlreadyMonitoredByStatus(vmId) == statuses[vmId] # 0

\* the guard of monitorVM: this.intervals.has(vmId)
AlreadyMonitored(vmId) == intervals[vmId] # 0

\* HealthChecker.monitorVM, up to its first await (getMoltbot)
CallMonitorVM(vmId) ==
  /\ stopped' = [stopped EXCEPT ![vmId] = FALSE]
  /\ IF AlreadyMonitored(vmId)
     THEN /\ warned' = warned \cup {vmId}
          /\ UNCHANGED <<nregs, tasks>>
     ELSE /\ HasFreeTask
          /\ nregs < MaxRegs
          /\ nregs' = nregs + 1
          /\ tasks' = [tasks EXCEPT ![FreeTask] =
                         [kind |-> "monitor", vmId |-> vmId, pc |-> "getMoltbot",
                          reg |-> nregs + 1, ref |-> 0, i |-> 0,
                          threw |-> FALSE]]
          /\ UNCHANGED warned
  /\ UNCHANGED <<healthCheck, config, statuses, heap, intervals, unhealthyCallbacks,
                 healthyCallbacks, timers, timerVm, obs>>

\* monitorVM called by a caller other than startMonitoring
MonitorVM(vmId) == CallMonitorVM(vmId) /\ UNCHANGED monitoring

\* a loop that ends after its first id
LoopEndsAfterFirst(ids, k) == TRUE

\* startMonitoring's for (const vmId of vmIds): the loop is over after id k
LoopEnds(ids, k) == k >= Len(ids)

\* startMonitoring at `await this.monitorVM(vmId)` for id k, just called: a
\* call that returned at once (the id is monitored already) awaits no task
AwaitMonitorVM(ids, k) ==
  [pc |-> "awaiting", ids |-> ids, k |-> k, outcome |-> "",
   task |-> IF AlreadyMonitored(ids[k]) THEN 0 ELSE FreeTask]

\* HealthChecker.startMonitoring, up to its first await: monitorVM is called
\* for the first id; with no ids it returns
StartMonitoring(ids) ==
  /\ monitoring.pc = "idle"
  /\ IF LoopEnds(ids, 0)
     THEN /\ monitoring' = [NoMonitoring EXCEPT !.pc = "done", !.ids = ids,
                                                !.outcome = "resolved"]
          /\ UNCHANGED <<healthCheck, config, statuses, heap, intervals,
                         unhealthyCallbacks, healthyCallbacks, timers, timerVm,
                         nregs, tasks, warned, stopped, obs>>
     ELSE /\ CallMonitorVM(ids[1])
          /\ monitoring' = AwaitMonitorVM(ids, 1)

\* startMonitoring resumes after the monitorVM it awaited has resolved: the
\* loop goes on with the next id, or the call returns
StartMonitoringNext ==
  /\ monitoring.pc = "awaiting"
  /\ monitoring.task = 0
  /\ IF LoopEnds(monitoring.ids, monitoring.k)
     THEN /\ monitoring' = [monitoring EXCEPT !.pc = "done",
                                              !.outcome = "resolved"]
          /\ UNCHANGED <<healthCheck, config, statuses, heap, intervals,
                         unhealthyCallbacks, healthyCallbacks, timers, timerVm,
                         nregs, tasks, warned, stopped, obs>>
     ELSE /\ CallMonitorVM(monitoring.ids[monitoring.k + 1])
          /\ monitoring' = AwaitMonitorVM(monitoring.ids, monitoring.k + 1)

\* the promise of the monitorVM call of task t settles: a startMonitoring
\* that awaits it is rejected with it, or may resume
MonitorVMSettles(t, outcome) ==
  IF monitoring.pc = "awaiting" /\ monitoring.task = t
    THEN IF outcome = "rejected"
           THEN [monitoring EXCEPT !.pc = "done", !.task = 0,
                                   !.outcome = "rejected"]
           ELSE [monitoring EXCEPT !.task = 0]
    ELSE monitoring

\* monitorVM from the answer of getMoltbot to the await inside the initial
\* performHealthCheck; a rejection of getMoltbot rejects monitorVM
MonitorGotVm(t) ==
  /\ tasks[t].kind = "monitor"
  /\ tasks[t].pc = "getMoltbot"
  /\ \E vm \in HCVmAnswers :
       IF vm.kind = "throws"
       THEN /\ tasks' = [tasks EXCEPT ![t] = IdleTask]
            /\ monitoring' = MonitorVMSettles(t, "rejected")
            /\ UNCHANGED <<statuses, heap, obs>>
       ELSE LET ref == tasks[t].reg
                sts == [statuses EXCEPT ![tasks[t].vmId] = ref]
                tks == [tasks EXCEPT ![t].pc = "checkHealth"]
            IN  /\ statuses' = sts
                /\ tasks' = tks
                /\ heap' = Collect([heap EXCEPT ![ref] = NewStatus(tasks[t].vmId, vm)],
                                   sts, tks)
                /\ obs' = CollectObs([obs EXCEPT ![ref] = NoObs], sts, tks)
                /\ UNCHANGED monitoring
  /\ UNCHANGED <<healthCheck, config, intervals, unhealthyCallbacks, healthyCallbacks, timers,
                 timerVm, nregs, warned, stopped>>

\* monitorVM after its initial check: setInterval and this.intervals.set
SetInterval(t) ==
  /\ tasks[t].kind = "monitor"
  /\ tasks[t].pc = "setInterval"
  /\ timers' = timers \cup {tasks[t].reg}
  /\ timerVm' = [timerVm EXCEPT ![tasks[t].reg] = tasks[t].vmId]
  /\ intervals' = [intervals EXCEPT ![tasks[t].vmId] = tasks[t].reg]
  /\ tasks' = [tasks EXCEPT ![t] = IdleTask]
  /\ monitoring' = MonitorVMSettles(t, "resolved")
  /\ UNCHANGED <<healthCheck, config, statuses, heap, unhealthyCallbacks, healthyCallbacks, nregs,
                 warned, stopped, obs>>

\* a timer fires: its callback calls performHealthCheck, which awaits checkHealth
TimerFire(h) ==
  /\ h \in timers
  /\ HasFreeTask
  /\ tasks' = [tasks EXCEPT ![FreeTask] =
                 [kind |-> "timer", vmId |-> timerVm[h], pc |-> "checkHealth",
                  reg |-> 0, ref |-> 0, i |-> 0, threw |-> FALSE]]
  /\ UNCHANGED <<monitoring, healthCheck, config, statuses, heap, intervals, unhealthyCallbacks,
                 healthyCallbacks, timers, timerVm, nregs, warned, stopped, obs>>

\* HealthChecker.stopMonitoringVM
StopMonitoringVM(vmId) ==
  /\ stopped' = [stopped EXCEPT ![vmId] = TRUE]
  /\ IF intervals[vmId] # 0
     THEN LET sts == [statuses EXCEPT ![vmId] = 0]
          IN  /\ timers' = timers \ {intervals[vmId]}
              /\ intervals' = [intervals EXCEPT ![vmId] = 0]
              /\ statuses' = sts
              /\ heap' = Collect(heap, sts, tasks)
              /\ obs' = CollectObs(obs, sts, tasks)
     ELSE UNCHANGED <<timers, intervals, statuses, heap, obs>>
  /\ UNCHANGED <<monitoring, healthCheck, config, unhealthyCallbacks, healthyCallbacks, timerVm, nregs,
                 tasks, warned>>

\* HealthChecker.stopMonitoring
StopMonitoring ==
  LET sts == [v \in VmIds |-> 0]
  IN  /\ stopped' = [v \in VmIds |-> TRUE]
      /\ timers' = timers \ {intervals[v] : v \in VmIds}
      /\ intervals' = [v \in VmIds |-> 0]
      /\ statuses' = sts
      /\ heap' = Collect(heap, sts, tasks)
      /\ obs' = CollectObs(obs, sts, tasks)
      /\ UNCHANGED <<monitoring, healthCheck, config, unhealthyCallbacks, healthyCallbacks, timerVm, nregs,
                     tasks, warned>>

\* HealthChecker.onUnhealthy (subscribers register before monitoring starts)
OnUnhealthy ==
  /\ nregs = 0
  /\ unhealthyCallbacks < MaxSubs
  /\ unhealthyCallbacks' = unhealthyCallbacks + 1
  /\ UNCHANGED <<monitoring, healthCheck, config, statuses, heap, intervals, healthyCallbacks, timers, timerVm,
                 nregs, tasks, warned, stopped, obs>>

\* HealthChecker.onHealthy (subscribers register before monitoring starts)
OnHealthy ==
  /\ nregs = 0
  /\ healthyCallbacks < MaxSubs
  /\ healthyCallbacks' = healthyCallbacks + 1
  /\ UNCHANGED <<monitoring, healthCheck, config, statuses, heap, intervals, unhealthyCallbacks, timers,
                 timerVm, nregs, tasks, warned, stopped, obs>>

\* a threshold test that is late by one failure
ReachedThresholdLate(consecutiveFailures) ==
  consecutiveFailures > config.failureThreshold

\* performHealthCheck's test for the unhealthy state
ReachedThreshold(consecutiveFailures) ==
  consecutiveFailures >= config.failureThreshold

\* a restart test that lets one attempt too many through
MayRestartOneMore(status) == ~(status.restartAttempts > config.maxRestartAttempts)

\* a restart test that lets no attempt through
MayRestartNever(status) == FALSE

\* attemptRestart's test that lets a restart through
MayRestart(status) == ~(status.restartAttempts >= config.maxRestartAttempts)

\* a recovery test that every success passes
RecoveredOrStillHealthy(wasHealthy) == TRUE

\* performHealthCheck's test for a recovery, on a successful check
Recovered(wasHealthy) == ~wasHealthy

\* notifyUnhealthy / notifyHealthy from their call to their first await: the
\* first subscriber, if any, is invoked at once (0: the list was empty and
\* the loop is over)
FirstNotified(n) == IF n >= 1 THEN 1 ELSE 0

\* the task of a call whose performHealthCheck has returned, and the heap
\* once that call's reference is dropped
FinishWith(t, ob) ==
  LET tks == [tasks EXCEPT ![t] = AfterCheck(tasks[t])]
  IN  /\ tasks' = tks
      /\ heap' = Collect(heap, statuses, tks)
      /\ obs' = CollectObs(ob, statuses, tks)

Finish(t) == FinishWith(t, obs)

\* a lookup that answers the first entry of the map
StatusOfFirst(vmId) ==
  IF \E v \in VmIds : statuses[v] # 0
    THEN statuses[CHOOSE v \in VmIds :
                    statuses[v] # 0 /\ (v # "vm-1" => statuses["vm-1"] = 0)]
    ELSE 0

\* performHealthCheck: this.statuses.get(vmId)
StatusOf(vmId) == statuses[vmId]

\* performHealthCheck from the answer of checkHealth to its next await
CheckHealthDone(t) ==
  /\ tasks[t].pc = "checkHealth"
  /\ \E result \in HCResults :
       LET vmId == tasks[t].vmId
           ref == StatusOf(vmId)
       IN
       IF ref = 0
       THEN Finish(t)
       ELSE
         LET status == heap[ref]
             wasHealthy == status.healthy
             seen == [status EXCEPT !.details =
                        Details(result.machineState, result.gatewayReachable,
                                result.gatewayResponse, result.error)]
             failures == status.consecutiveFailures + 1
             applied == [obs EXCEPT ![ref].history = Append(@, result.healthy)]
         IN
         /\ Len(obs[ref].history) < MaxChecks
         /\ IF result.healthy
            THEN /\ heap' = [heap EXCEPT ![ref] =
                               [seen EXCEPT !.healthy = TRUE,
                                            !.consecutiveFailures = 0,
                                            !.restartAttempts = 0]]
                 /\ IF Recovered(wasHealthy)
                    THEN LET i == FirstNotified(healthyCallbacks)
                         IN  /\ tasks' = [tasks EXCEPT ![t].pc = "notifyHealthy",
                                                       ![t].ref = ref, ![t].i = i]
                             /\ obs' = [applied EXCEPT
                                          ![ref].restartCalls = 0,
                                          ![ref].rejected = FALSE,
                                          ![ref].healthyCalls =
                                             IF i = 1 THEN [@ EXCEPT ![1] = @ + 1] ELSE @]
                    ELSE /\ tasks' = [tasks EXCEPT ![t] = AfterCheck(tasks[t])]
                         /\ obs' = [applied EXCEPT ![ref].restartCalls = 0,
                                                   ![ref].rejected = FALSE]
            ELSE IF ReachedThreshold(failures)
                 THEN LET i == FirstNotified(unhealthyCallbacks)
                      IN  /\ heap' = [heap EXCEPT ![ref] =
                                        [seen EXCEPT !.healthy = FALSE,
                                                     !.consecutiveFailures = failures]]
                          /\ tasks' = [tasks EXCEPT ![t].pc = "notifyUnhealthy",
                                                    ![t].ref = ref, ![t].i = i]
                          /\ obs' = [applied EXCEPT
                                       ![ref].unhealthyCalls =
                                          IF i = 1 THEN [@ EXCEPT ![1] = @ + 1] ELSE @]
                 ELSE /\ heap' = [heap EXCEPT ![ref] =
                                    [seen EXCEPT !.consecutiveFailures = failures]]
                      /\ tasks' = [tasks EXCEPT ![t] = AfterCheck(tasks[t])]
                      /\ obs' = applied
  /\ UNCHANGED <<monitoring, healthCheck, config, statuses, intervals, unhealthyCallbacks, healthyCallbacks,
                 timers, timerVm, nregs, warned, stopped>>

\* how the promise of a subscriber, or of restartMoltbot, settles
Settlements == {"resolved", "rejected"}

\* a loop that a throwing subscriber ends
NextCallbackOrAbort(i, n, settled) ==
  IF settled = "resolved" /\ i < n THEN i + 1 ELSE 0

\* the loop of notifyUnhealthy / notifyHealthy once the promise of subscriber
\* i of n has settled: a rejection is caught inside the loop, which goes on
\* with subscriber i + 1 (0: the loop is over)
NextCallback(i, n, settled) == IF i < n THEN i + 1 ELSE 0

\* notifyHealthy resumes after a subscriber: the next subscriber is invoked,
\* or the loop ends and with it performHealthCheck
NotifyHealthyStep(t) ==
  /\ tasks[t].pc = "notifyHealthy"
  /\ LET i == tasks[t].i
         ref == tasks[t].ref
     IN  \E settled \in IF i >= 1 THEN Settlements ELSE {"resolved"} :
           LET next == IF i >= 1 THEN NextCallback(i, healthyCallbacks, settled)
                       ELSE 0
           IN  IF next # 0
               THEN /\ obs' = [obs EXCEPT ![ref].healthyCalls[next] = @ + 1]
                    /\ tasks' = [tasks EXCEPT
                                   ![t].i = next,
                                   ![t].threw = @ \/ settled = "rejected"]
                    /\ UNCHANGED heap
               ELSE Finish(t)
  /\ UNCHANGED <<monitoring, healthCheck, config, statuses, intervals, unhealthyCallbacks, healthyCallbacks,
                 timers, timerVm, nregs, warned, stopped>>

\* notifyUnhealthy resumes after a subscriber: the next subscriber is
\* invoked, or the loop ends and performHealthCheck goes on to attemptRestart,
\* which runs up to its await of restartMoltbot
NotifyUnhealthyStep(t) ==
  /\ tasks[t].pc = "notifyUnhealthy"
  /\ LET i == tasks[t].i
         ref == tasks[t].ref
     IN  \E settled \in IF i >= 1 THEN Settlements ELSE {"resolved"} :
           LET next == IF i >= 1 THEN NextCallback(i, unhealthyCallbacks, settled)
                       ELSE 0
           IN  IF next # 0
               THEN /\ obs' = [obs EXCEPT ![ref].unhealthyCalls[next] = @ + 1]
                    /\ tasks' = [tasks EXCEPT
                                   ![t].i = next,
                                   ![t].threw = @ \/ settled = "rejected"]
                    /\ UNCHANGED heap
               ELSE IF config.autoRestart /\ MayRestart(heap[ref])
                    THEN /\ heap' = [heap EXCEPT ![ref].restartAttempts = @ + 1]
                         /\ obs' = [obs EXCEPT ![ref].restartCalls = @ + 1]
                         /\ tasks' = [tasks EXCEPT
                                        ![t].pc = "restartMoltbot",
                                        ![t].threw = @ \/ settled = "rejected"]
                    ELSE Finish(t)
  /\ UNCHANGED <<monitoring, healthCheck, config, statuses, intervals, unhealthyCallbacks, healthyCallbacks,
                 timers, timerVm, nregs, warned, stopped>>

\* an attemptRestart without its try/catch
AttemptRestartRethrows(settled) ==
  IF settled = "rejected" THEN "threw" ELSE "returned"

\* attemptRestart once restartMoltbot has settled: a rejection is caught and
\* logged, and the call returns either way
AttemptRestartEnds(settled) == "returned"

\* attemptRestart after restartMoltbot settled; were it to throw,
\* performHealthCheck and the timer's callback (or monitorVM before its
\* setInterval) would end with that exception
RestartDone(t) ==
  /\ tasks[t].pc = "restartMoltbot"
  /\ \E settled \in Settlements :
       IF AttemptRestartEnds(settled) = "returned"
       THEN FinishWith(t, [obs EXCEPT ![tasks[t].ref].rejected =
                                        @ \/ settled = "rejected"])
       ELSE /\ tasks' = [tasks EXCEPT ![t].pc = "escaped"]
            /\ UNCHANGED <<heap, obs>>
  /\ UNCHANGED <<monitoring, healthCheck, config, statuses, intervals, unhealthyCallbacks, healthyCallbacks,
                 timers, timerVm, nregs, warned, stopped>>

\* the instance monitored in the specifications below
HCIds == {"vm-1"}

\* The lifecycle of monitoring: registration, timers, checks and stopping,
\* in every interleaving, under one configuration and with at most
\* LifecycleSubs subscribers for each event.
NextHC ==
  \/ \E v \in HCIds : MonitorVM(v) /\ UNCHANGED provVars
  \/ \E t \in Tasks : MonitorGotVm(t) /\ UNCHANGED provVars
  \/ \E t \in Tasks : SetInterval(t) /\ UNCHANGED provVars
  \/ \E h \in Regs : TimerFire(h) /\ UNCHANGED provVars
  \/ \E v \in HCIds : StopMonitoringVM(v) /\ UNCHANGED provVars
  \/ StopMonitoring /\ UNCHANGED provVars
  \/ unhealthyCallbacks < LifecycleSubs /\ OnUnhealthy /\ UNCHANGED provVars
  \/ healthyCallbacks < LifecycleSubs /\ OnHealthy /\ UNCHANGED provVars
  \/ \E t \in Tasks : CheckHealthDone(t) /\ UNCHANGED provVars
  \/ \E t \in Tasks : NotifyHealthyStep(t) /\ UNCHANGED provVars
  \/ \E t \in Tasks : NotifyUnhealthyStep(t) /\ UNCHANGED provVars
  \/ \E t \in Tasks : RestartDone(t) /\ UNCHANGED provVars

SpecHC == InitHC /\ [][NextHC]_vars

\* The checking policy (threshold, callbacks, auto-restart) of one
\* registered instance that is never stopped, under every configuration.
NextPolicy ==
  \/ \E v \in HCIds : nregs = 0 /\ MonitorVM(v) /\ UNCHANGED provVars
  \/ \E t \in Tasks : MonitorGotVm(t) /\ UNCHANGED provVars
  \/ \E t \in Tasks : SetInterval(t) /\ UNCHANGED provVars
  \/ \E h \in Regs : TimerFire(h) /\ UNCHANGED provVars
  \/ OnUnhealthy /\ UNCHANGED provVars
  \/ OnHealthy /\ UNCHANGED provVars
  \/ \E t \in Tasks : CheckHealthDone(t) /\ UNCHANGED provVars
  \/ \E t \in Tasks : NotifyHealthyStep(t) /\ UNCHANGED provVars
  \/ \E t \in Tasks : NotifyUnhealthyStep(t) /\ UNCHANGED provVars
  \/ \E t \in Tasks : RestartDone(t) /\ UNCHANGED provVars

SpecPolicy == InitPolicy /\ [][NextPolicy]_vars

\* the lists of ids startMonitoring is called with: none, one, two, and
\* one id twice
IdLists == {<<>>, <<"vm-1">>, <<"vm-1", "vm-2">>, <<"vm-2", "vm-2">>}

\* Monitoring several instances: startMonitoring registers them one after
\* the other while the timers of those already registered fire.
NextMulti ==
  \/ \E ids \in IdLists : StartMonitoring(ids) /\ UNCHANGED provVars
  \/ StartMonitoringNext /\ UNCHANGED provVars
  \/ \E t \in Tasks : MonitorGotVm(t) /\ UNCHANGED provVars
  \/ \E t \in Tasks : SetInterval(t) /\ UNCHANGED provVars
  \/ \E h \in Regs : TimerFire(h) /\ UNCHANGED provVars
  \/ \E t \in Tasks : CheckHealthDone(t) /\ UNCHANGED provVars
  \/ \E t \in Tasks : NotifyHealthyStep(t) /\ UNCHANGED provVars
  \/ \E t \in Tasks : NotifyUnhealthyStep(t) /\ UNCHANGED provVars
  \/ \E t \in Tasks : RestartDone(t) /\ UNCHANGED provVars
  \/ unhealthyCallbacks < LifecycleSubs /\ OnUnhealthy /\ UNCHANGED provVars
  \/ healthyCallbacks < LifecycleSubs /\ OnHealthy /\ UNCHANGED provVars

SpecMulti == InitHC /\ [][NextMulti]_vars

\* A direct call of checkHealth, under every answer of the provisioner and
\* of the gateway.
InitCheck ==
  /\ \E vm \in CheckVmAnswers, gw \in CheckGwAnswers :
       ConstructedWith(LifecycleConfig, Called(vm, gw))
  /\ ProvConstructed

\* HealthChecker.checkHealth returns
CheckHealthReturns ==
  /\ healthCheck.pc = "called"
  /\ healthCheck' = [healthCheck EXCEPT
                       !.pc = "returned",
                       !.result = CheckHealth(healthCheck.vm, healthCheck.gw)]
  /\ UNCHANGED <<monitoring, config, statuses, heap, intervals, unhealthyCallbacks,
                 healthyCallbacks, timers, timerVm, nregs, tasks, warned, stopped, obs>>

NextCheck == CheckHealthReturns /\ UNCHANGED provVars

SpecCheck == InitCheck /\ [][NextCheck]_vars

(***************************************************************************)
(* Properties of the health checker.                                       *)
(***************************************************************************)
Fails(n) == [k \in 1..n |-> FALSE]

Notifying(ref, pc) == \E t \in Tasks : tasks[t].ref = ref /\ tasks[t].pc = pc

\* C2: for a freshly registered instance and a failureThreshold N >= 1,
\* once exactly N failing checks have been applied to its status record the
\* record has healthy = false and, when the notification has run, every
\* onUnhealthy subscriber has been invoked exactly once; if the next check
\* succeeds, consecutiveFailures is 0, healthy is true and, when that
\* notification has run, every onHealthy subscriber has been invoked exactly
\* once.
C2_ThresholdThenRecovery ==
  \A v \in VmIds :
    LET ref == statuses[v]
        N == config.failureThreshold
    IN  ref # 0 =>
          /\ obs[ref].history = Fails(N) =>
               /\ heap[ref].healthy = FALSE
               /\ heap[ref].consecutiveFailures = N
               /\ ~Notifying(ref, "notifyUnhealthy") =>
                    \A s \in 1..unhealthyCallbacks : obs[ref].unhealthyCalls[s] = 1
          /\ obs[ref].history = Append(Fails(N), TRUE) =>
               /\ heap[ref].healthy = TRUE
               /\ heap[ref].consecutiveFailures = 0
               /\ ~Notifying(ref, "notifyHealthy") =>
                    \A s \in 1..healthyCallbacks : obs[ref].healthyCalls[s] = 1

\* C2's case: a threshold of 2, two failures then a success, and both
\* kinds of subscriber notified
C2_Witness ==
  \E v \in VmIds :
    /\ statuses[v] # 0
    /\ config.failureThreshold = 2
    /\ obs[statuses[v]].history = <<FALSE, FALSE, TRUE>>
    /\ unhealthyCallbacks >= 1
    /\ healthyCallbacks >= 1
    /\ obs[statuses[v]].unhealthyCalls[1] = 1
    /\ obs[statuses[v]].healthyCalls[1] = 1
    /\ \A t \in Tasks : tasks[t].pc = "idle"

\* C3: during one run of failing checks of a monitored instance (no
\* successful check, no re-registration) restartMoltbot is invoked at most
\* maxRestartAttempts times, and restartAttempts never exceeds
\* maxRestartAttempts.
C3_RestartsBounded ==
  \A ref \in Regs :
    /\ obs[ref].restartCalls <= config.maxRestartAttempts
    /\ heap[ref].restartAttempts <= config.maxRestartAttempts

\* C3's case: every allowed restart was issued and a further failing check
\* has run to its end without another one
C3_Witness ==
  \E v \in VmIds :
    /\ statuses[v] # 0
    /\ config.autoRestart
    /\ config.maxRestartAttempts >= 1
    /\ obs[statuses[v]].restartCalls = config.maxRestartAttempts
    /\ heap[statuses[v]].consecutiveFailures >=
         config.failureThreshold + config.maxRestartAttempts
    /\ \A t \in Tasks : tasks[t].pc = "idle"

\* C8: after stopMonitoringVM(id) or stopMonitoring() has returned,
\* getStatus(id) returns undefined (and getAllStatuses() holds no record for
\* id) until monitorVM(id) is called again, whatever registration or check
\* was in progress at the stop.
C8_StoppedHasNoStatus ==
  \A v \in VmIds : stopped[v] => statuses[v] = 0

\* C9: after stopMonitoringVM(id) or stopMonitoring() has returned, no timer
\* for id fires unless monitorVM(id) is called afterwards.
C9_NoTimerFiresAfterStop ==
  [][\A h \in Regs : TimerFire(h) => ~stopped[timerVm[h]]]_vars

\* C10: monitorVM(id) for an id that is already monitored (an id with a
\* timer in the intervals map) changes no status record, starts no check and
\* schedules no timer.
C10_MonitorAgainIsNoOp ==
  [][\A v \in VmIds :
       (MonitorVM(v) /\ intervals[v] # 0) =>
          UNCHANGED <<statuses, heap, intervals, timers, timerVm, tasks, nregs, obs>>]_vars

\* C10's case: monitorVM was called for a monitored id (its warning is in
\* the log) whose record shows failures
C10_Witness ==
  \E v \in VmIds :
    /\ v \in warned
    /\ intervals[v] # 0
    /\ statuses[v] # 0
    /\ heap[statuses[v]].consecutiveFailures >= 1

(***************************************************************************)
(* The provisioner's operations.  One action is the synchronous code       *)
(* between two awaits; every remote request may be served or may fail.     *)
(***************************************************************************)
\* the answers of the Machines API to a request on an application
Answers(appName) ==
  IF fly[appName].exists THEN {"ok", "error"} ELSE {"404", "error"}

\* the answers of the GraphQL API
GraphqlAnswers == {"ok", "error"}

Step(c, call) == calls' = [calls EXCEPT ![c] = call]

\* the call as it is once its promise has settled
Ended(call, outcome, instance, listing) ==
  [IdleCall EXCEPT !.op = call.op, !.pc = "done", !.name = call.name,
                   !.snapshotId = call.snapshotId, !.step = call.step,
                   !.deleteIssued = call.deleteIssued,
                   !.faulted = call.faulted, !.outcome = outcome,
                   !.instance = instance, !.listing = listing,
                   !.target = call.target, !.actions = call.actions,
                   !.error = call.error,
                   !.cleanupFailed = call.cleanupFailed,
                   !.config = call.config, !.sent = call.sent,
                   !.sudoFailed = call.sudoFailed,
                   !.listed = call.listed, !.skipped = call.skipped,
                   !.route = call.route, !.env = call.env]

Rejected(call) == Ended(call, "rejected", NoInstance, {})

\* the Error machinesRequest or graphqlRequest throws, by the request that
\* was awaited
ApiError(at) == [kind |-> "api", at |-> at, target |-> ""]

Failed(call, step) ==
  [call EXCEPT !.step = step, !.faulted = TRUE, !.error = ApiError(call.pc)]

\* a caller invokes an operation after its previous call has settled
Begin(c, op, name, appName, snapshotId, pc) ==
  /\ calls[c].pc \in {"idle", "done"}
  /\ Step(c, [IdleCall EXCEPT !.op = op, !.pc = pc, !.name = name,
                              !.appName = appName,
                              !.snapshotId = snapshotId])
  /\ pobs' = [pobs EXCEPT !.prev =
                [op |-> calls[c].op, name |-> calls[c].name,
                 outcome |-> calls[c].outcome,
                 instance |-> calls[c].instance],
                          !.destroyed =
                IF op \in {"createMoltbot", "deployFromSnapshot"}
                  THEN @ \ {name} ELSE @]

\* the observation once an application is deleted
Forget(ob, appName) ==
  [ob EXCEPT !.created = [n \in Names |->
                            IF ob.created[n] = appName THEN <<>>
                            ELSE ob.created[n]],
             !.hiddenOk = [n \in Names |->
                             IF AppNameOf(n) = appName THEN {}
                             ELSE ob.hiddenOk[n]]]

\* createMoltbot, up to its first await
CreateMoltbot(c, name) ==
  /\ uuids < MaxUuids
  /\ Begin(c, "createMoltbot", name, CreateAppName(name), 0, "getOrgId")
  /\ UNCHANGED <<fly, machineIds, snapshotIds, uuids, hcVars>>

\* createMoltbotSchema.parse accepts any name
ParsesAnyName(name) == TRUE

\* createMoltbotSchema.parse(body) returns (it throws a ZodError otherwise)
Parses(name) == IsSlug(name)

\* POST /api/moltbots with a body that holds the name: the schema is
\* parsed, then the AI provider keys of the environment are looked up, then
\* provisioner.createMoltbot is called; up to the first await after the body
\* is read
PostMoltbots(c, name, hasKey) ==
  /\ uuids < MaxUuids
  /\ calls[c].pc \in {"idle", "done"}
  /\ LET request == [IdleCall EXCEPT !.op = "createMoltbot", !.name = name,
                                     !.route = "POST /api/moltbots"]
     IN  IF ~Parses(name)
           THEN Step(c, Ended([request EXCEPT
                                 !.error = [kind |-> "ZodError", at |-> "",
                                            target |-> ""]],
                              "rejected", NoInstance, {}))
         ELSE IF ~hasKey
           THEN Step(c, Ended([request EXCEPT
                                 !.error = [kind |-> "MISSING_API_KEY",
                                            at |-> "", target |-> ""]],
                              "resolved", NoInstance, {}))
         ELSE Step(c, [request EXCEPT !.appName = CreateAppName(name),
                                      !.pc = "getOrgId"])
  /\ pobs' = [pobs EXCEPT !.prev =
                [op |-> calls[c].op, name |-> calls[c].name,
                 outcome |-> calls[c].outcome,
                 instance |-> calls[c].instance],
                          !.destroyed = @ \ {name}]
  /\ UNCHANGED <<fly, machineIds, snapshotIds, uuids, hcVars>>

\* createMoltbot called with a config.env, up to its first await
CreateMoltbotWithEnv(c, name, env) ==
  /\ uuids < MaxUuids
  /\ calls[c].pc \in {"idle", "done"}
  /\ Step(c, [IdleCall EXCEPT !.op = "createMoltbot", !.pc = "getOrgId",
                              !.name = name, !.appName = CreateAppName(name),
                              !.env = env])
  /\ pobs' = [pobs EXCEPT !.prev =
                [op |-> calls[c].op, name |-> calls[c].name,
                 outcome |-> calls[c].outcome,
                 instance |-> calls[c].instance],
                          !.destroyed = @ \ {name}]
  /\ UNCHANGED <<fly, machineIds, snapshotIds, uuids, hcVars>>

\* deployFromSnapshot, up to its first await
DeployFromSnapshot(c, snapshotId, newName) ==
  /\ uuids < MaxUuids
  /\ Begin(c, "deployFromSnapshot", newName, CreateAppName(newName),
           snapshotId, "getOrgId")
  /\ UNCHANGED <<fly, machineIds, snapshotIds, uuids, hcVars>>

\* step 1: createApp evaluates `await this.getOrgId()` first
GetOrgId(c) ==
  LET call == calls[c] IN
  /\ call.pc = "getOrgId"
  /\ \E ans \in GraphqlAnswers :
       IF ans = "ok"
         THEN Step(c, [call EXCEPT !.pc = "createApp"])
         ELSE Step(c, Rejected(Failed(call, 1)))
  /\ UNCHANGED <<fly, machineIds, snapshotIds, uuids, pobs, hcVars>>

\* step 1: the createApp mutation; a name that is taken is refused
CreateApp(c) ==
  LET call == calls[c] IN
  /\ call.pc = "createApp"
  /\ \E ans \in IF fly[call.appName].exists THEN {"error"} ELSE GraphqlAnswers :
       IF ans = "ok"
         THEN /\ fly' = [fly EXCEPT ![call.appName] = FlyCreateApp(@)]
              /\ Step(c, [call EXCEPT !.pc = "allocateSharedIp"])
         ELSE /\ Step(c, Rejected(Failed(call, 1)))
              /\ UNCHANGED fly
  /\ UNCHANGED <<machineIds, snapshotIds, uuids, pobs, hcVars>>

\* a create that goes from the address straight to the machine
AfterAddressTheMachine(op) == "createMachine"

\* what follows the address: createVolume in createMoltbot, the volume from
\* the snapshot in deployFromSnapshot
AfterAddress(op) ==
  IF op = "createMoltbot" THEN "createVolume" ELSE "volumeFromSnapshot"

\* step 2: allocateSharedIp
AllocateSharedIp(c) ==
  LET call == calls[c] IN
  /\ call.pc = "allocateSharedIp"
  /\ \E ans \in IF fly[call.appName].exists THEN GraphqlAnswers ELSE {"error"} :
       IF ans = "ok"
         THEN /\ fly' = [fly EXCEPT ![call.appName] = FlyAllocateIp(@)]
              /\ Step(c, [call EXCEPT !.pc = AfterAddress(call.op)])
         ELSE /\ Step(c, Rejected(Failed(call, 2)))
              /\ UNCHANGED fly
  /\ UNCHANGED <<machineIds, snapshotIds, uuids, pobs, hcVars>>

\* step 3 of createMoltbot: createVolume(appName, volumeName, 20); its
\* continuation runs crypto.randomUUID() and builds the machine request
CreateVolume(c) ==
  LET call == calls[c] IN
  /\ call.pc = "createVolume"
  /\ \E ans \in Answers(call.appName) :
       IF ans = "ok"
         THEN /\ fly' = [fly EXCEPT ![call.appName] =
                           FlySetVolume(@, DefaultVolumeGb)]
              /\ uuids' = uuids + 1
              /\ Step(c, [call EXCEPT !.pc = "createMachine",
                                      !.token = uuids + 1])
         ELSE /\ Step(c, Rejected(Failed(call, 3)))
              /\ UNCHANGED <<fly, uuids>>
  /\ UNCHANGED <<machineIds, snapshotIds, pobs, hcVars>>

\* step 3 of deployFromSnapshot: POST /volumes with size_gb 5 and the
\* snapshot_id; a snapshot that is not in the account is refused
VolumeFromSnapshot(c) ==
  LET call == calls[c] IN
  /\ call.pc = "volumeFromSnapshot"
  /\ \E ans \in IF \E a \in AppNames : call.snapshotId \in fly[a].snapshots
                  THEN Answers(call.appName) ELSE {"error"} :
       IF ans = "ok"
         THEN /\ fly' = [fly EXCEPT ![call.appName] =
                           FlySetVolume(@, LegacyVolumeGb)]
              /\ Step(c, [call EXCEPT !.pc = "extendVolume"])
         ELSE /\ Step(c, Rejected(Failed(call, 3)))
              /\ UNCHANGED fly
  /\ UNCHANGED <<machineIds, snapshotIds, uuids, pobs, hcVars>>

\* step 3 of deployFromSnapshot: PUT /volumes/<id>/extend with size_gb 20;
\* its continuation runs crypto.randomUUID() and builds the machine request
ExtendVolume(c) ==
  LET call == calls[c] IN
  /\ call.pc = "extendVolume"
  /\ \E ans \in Answers(call.appName) :
       IF ans = "ok"
         THEN /\ fly' = [fly EXCEPT ![call.appName] =
                           FlySetVolume(@, DefaultVolumeGb)]
              /\ uuids' = uuids + 1
              /\ Step(c, [call EXCEPT !.pc = "createMachine",
                                      !.token = uuids + 1])
         ELSE /\ Step(c, Rejected(Failed(call, 3)))
              /\ UNCHANGED <<fly, uuids>>
  /\ UNCHANGED <<machineIds, snapshotIds, pobs, hcVars>>

\* the catch block of createMoltbot and deployFromSnapshot is entered
Caught(call, step) == [Failed(call, step) EXCEPT !.pc = "cleanup"]

\* step 6: POST /machines, the first statement of the try block
CreateMachine(c) ==
  LET call == calls[c] IN
  /\ call.pc = "createMachine"
  /\ \E ans \in Answers(call.appName) :
       IF ans = "ok"
         THEN /\ machineIds' = machineIds + 1
              /\ fly' = [fly EXCEPT ![call.appName] =
                           FlySetConfig(
                             FlyCreateMachine(@, machineIds + 1, call.name),
                             MachineConfig(LatestImage, call.token, call.env))]
              /\ Step(c, [call EXCEPT !.pc = "setMachineMetadata",
                                      !.machine = machineIds + 1])
         ELSE /\ Step(c, Caught(call, 6))
              /\ UNCHANGED <<fly, machineIds>>
  /\ UNCHANGED <<snapshotIds, uuids, pobs, hcVars>>

\* step 7: setMachineMetadata(appName, machine.id, "gateway_token", token)
SetGatewayToken(c) ==
  LET call == calls[c] IN
  /\ call.pc = "setMachineMetadata"
  /\ \E ans \in Answers(call.appName) :
       IF ans = "ok" /\ fly[call.appName].machine = call.machine
         THEN /\ fly' = [fly EXCEPT ![call.appName] = FlySetToken(@, call.token)]
              /\ Step(c, [call EXCEPT !.pc = "waitForState", !.n = 1,
                                      !.target = "started"])
         ELSE /\ Step(c, Caught(call, 7))
              /\ UNCHANGED fly
  /\ UNCHANGED <<machineIds, snapshotIds, uuids, pobs, hcVars>>

\* the operations that create an instance, whose try block catches what
\* waitForState throws
Creating == {"createMoltbot", "deployFromSnapshot"}

\* waitForState throws: into the catch block of a creating operation (as
\* its step 8), out of startMoltbot, stopMoltbot and restartMoltbot
WaitThrows(call, error) ==
  LET failed == [call EXCEPT !.step = 8, !.faulted = TRUE, !.error = error]
  IN  IF call.op \in Creating
        THEN [failed EXCEPT !.pc = "cleanup"]
        ELSE Rejected(failed)

\* a poll that takes every state for the target
ReachedAnyState(flyState, targetState) == TRUE

\* waitForState: this.mapFlyState(machine.state) === targetState
Reached(flyState, targetState) == mapFlyState(flyState) = targetState

\* waitForState: the loop condition after the given number of polls (each
\* followed by a sleep) no longer holds
DeadlinePassed(polls) == polls >= MaxPolls

\* one iteration of waitForState(appName, machineId, targetState): step 8
\* of the creating operations, the last await of stopMoltbot, the one
\* before installSudoAccess in startMoltbot and restartMoltbot
WaitForState(c) ==
  LET call == calls[c]
      app == fly[call.appName]
  IN
  /\ call.pc = "waitForState"
  /\ \E ans \in Answers(call.appName) :
       IF ans # "ok"
         THEN Step(c, WaitThrows(call, ApiError(call.pc)))
       ELSE IF app.machine # call.machine
         THEN Step(c, WaitThrows(call, [kind |-> "not found", at |-> call.pc,
                                        target |-> ""]))
       ELSE IF Reached(app.state, call.target)
         THEN LET found == [call EXCEPT
                              !.instance = mapMachineToInstance(app, call.appName)]
              IN  IF call.op = "stopMoltbot"
                    THEN Step(c, Ended(found, "resolved", found.instance, {}))
                    ELSE Step(c, [found EXCEPT !.pc = "installSudoAccess",
                                               !.n = 1])
       ELSE IF ~DeadlinePassed(call.n)
         THEN Step(c, [call EXCEPT !.n = @ + 1])
       ELSE Step(c, WaitThrows(call, [kind |-> "timeout", at |-> call.pc,
                                      target |-> call.target]))
  /\ UNCHANGED <<fly, machineIds, snapshotIds, uuids, pobs, hcVars>>

\* an installSudoAccess that throws when its last attempt has failed
AfterSudoAttemptThrowing(ok, attempt) ==
  IF ok THEN "return" ELSE IF attempt < maxRetries THEN "retry" ELSE "throw"

\* installSudoAccess after its attempt number `attempt`: it returns when the
\* commands succeeded, tries again while attempt < maxRetries, and after the
\* last attempt logs the failure and leaves the loop
AfterSudoAttempt(ok, attempt) ==
  IF ok THEN "return" ELSE IF attempt < maxRetries THEN "retry" ELSE "return"

\* one attempt of installSudoAccess, which never throws.  A creating
\* operation (step 9) then maps the instance from the machine POST /machines
\* answered with; startMoltbot, restartMoltbot and updateMoltbot return the
\* instance waitForState returned
InstallSudoAccess(c) ==
  LET call == calls[c]
      machine == FlyCreateMachine(NoApp, call.machine, call.name)
      instance == [mapMachineToInstance(machine, call.appName)
                     EXCEPT !.gatewayToken = call.token]
  IN
  /\ call.pc = "installSudoAccess"
  /\ \E ok \in BOOLEAN :
       LET next == AfterSudoAttempt(ok, call.n)
           after == [call EXCEPT !.sudoFailed = ~ok]
       IN
       CASE next = "return" ->
              IF call.op \in Creating
                THEN /\ Step(c, Ended(after, "resolved", instance, {}))
                     /\ pobs' = [pobs EXCEPT !.created[call.name] = call.appName]
                ELSE /\ Step(c, Ended(after, "resolved", call.instance, {}))
                     /\ UNCHANGED pobs
         [] next = "retry" ->
              /\ Step(c, [call EXCEPT !.n = @ + 1])
              /\ UNCHANGED pobs
         [] OTHER ->
              /\ Step(c, IF call.op \in Creating THEN Caught(call, 9)
                         ELSE Rejected(Failed(call, 9)))
              /\ UNCHANGED pobs
  /\ UNCHANGED <<fly, machineIds, snapshotIds, uuids, hcVars>>

\* a catch block that lets the error of its own deleteApp out
RethrownCleanupError(error, cleanupError) == cleanupError

\* the catch block's `throw error`: the error it caught, whatever its own
\* deleteApp threw
Rethrown(error, cleanupError) == error

\* a deleteApp mutation that removes nothing
deleteAppKeepsAll(account, appName) == account

\* the account once a deleteApp mutation for appName has succeeded: the
\* application is gone with its machine, its volume and their snapshots
deleteApp(account, appName) == [account EXCEPT ![appName] = NoApp]

\* the catch block: deleteApp, its failure ignored, then the error rethrown
Cleanup(c) ==
  LET call == calls[c] IN
  /\ call.pc = "cleanup"
  /\ \E ans \in IF fly[call.appName].exists THEN GraphqlAnswers ELSE {"error"} :
       /\ IF ans = "ok"
            THEN /\ fly' = deleteApp(fly, call.appName)
                 /\ pobs' = Forget(pobs, call.appName)
            ELSE UNCHANGED <<fly, pobs>>
       /\ Step(c, Rejected([call EXCEPT
                              !.deleteIssued = TRUE,
                              !.cleanupFailed = (ans # "ok"),
                              !.error = Rethrown(call.error,
                                                 IF ans = "ok" THEN NoFailure
                                                 ELSE ApiError(call.pc))]))
  /\ UNCHANGED <<machineIds, snapshotIds, uuids, hcVars>>

\* Fly.io launches a machine that was created (skip_launch: false)
FlyStarts(appName) ==
  /\ fly[appName].machine # 0
  /\ fly[appName].state = "created"
  /\ fly' = [fly EXCEPT ![appName] = FlyStarted(@)]
  /\ UNCHANGED <<machineIds, snapshotIds, uuids, calls, pobs, hcVars>>

\* getMoltbot, up to its first await
GetMoltbot(c, moltbotName) ==
  /\ Begin(c, "getMoltbot", moltbotName, AppNameOf(moltbotName), 0, "get.machines")
  /\ UNCHANGED <<fly, machineIds, snapshotIds, uuids, hcVars>>

\* the texts of the failure responses of the remote API
FailureTexts == {<<"internal error">>, <<"upstream", "not found">>}

\* machinesRequest: the message of the Error it throws for a response that
\* is not ok, as a sequence of words
ErrorMessage(status, errorText) == <<"Fly.io API error:", status, "-">> \o errorText

\* getMoltbot's catch: error.message.includes("404") ||
\* error.message.includes("not found")
IsNotFound(message) == Includes(message, "404") \/ Includes(message, "not found")

\* getMoltbot: GET /machines answered; an empty list gives null, an error
\* whose message holds "404" or "not found" gives null, any other error is
\* rethrown
GetMachines(c) ==
  LET call == calls[c]
      app == fly[call.appName]
  IN
  /\ call.pc = "get.machines"
  /\ \E ans \in Answers(call.appName), text \in FailureTexts :
       IF ans = "ok"
         THEN IF app.machine = 0
                THEN Step(c, Ended(call, "resolved", NoInstance, {}))
                ELSE Step(c, [call EXCEPT
                                !.pc = "get.metadata",
                                !.machine = app.machine,
                                !.instance = mapMachineToInstance(app, call.appName)])
         ELSE LET status == IF ans = "404" THEN "404" ELSE "500"
                  failed == [call EXCEPT
                               !.faulted = (ans = "error"),
                               !.error = [kind |-> IF ans = "404" THEN "404" ELSE "api",
                                          at |-> call.pc, target |-> ""]]
              IN  IF IsNotFound(ErrorMessage(status, text))
                    THEN Step(c, Ended(failed, "resolved", NoInstance, {}))
                    ELSE Step(c, Rejected(failed))
  /\ UNCHANGED <<fly, machineIds, snapshotIds, uuids, pobs, hcVars>>

\* getMoltbot: getMachineMetadata answered ({} when the request failed)
GetMetadata(c) ==
  LET call == calls[c]
      app == fly[call.appName]
  IN
  /\ call.pc = "get.metadata"
  /\ \E ans \in Answers(call.appName) :
       LET token == IF ans = "ok" /\ app.machine = call.machine
                      THEN app.token ELSE 0
           seen == [call EXCEPT !.faulted = @ \/ ans = "error"]
       IN Step(c, Ended(seen, "resolved",
                        [call.instance EXCEPT !.gatewayToken = token], {}))
  /\ UNCHANGED <<fly, machineIds, snapshotIds, uuids, pobs, hcVars>>

\* destroyMoltbot, up to its await
DestroyMoltbot(c, moltbotName) ==
  /\ Begin(c, "destroyMoltbot", moltbotName, AppNameOf(moltbotName), 0,
           "destroy.deleteApp")
  /\ UNCHANGED <<fly, machineIds, snapshotIds, uuids, hcVars>>

\* destroyMoltbot: deleteApp answered
DestroyDeleteApp(c) ==
  LET call == calls[c] IN
  /\ call.pc = "destroy.deleteApp"
  /\ \E ans \in IF fly[call.appName].exists THEN GraphqlAnswers ELSE {"error"} :
       IF ans = "ok"
         THEN /\ fly' = deleteApp(fly, call.appName)
              /\ calls' = [calls EXCEPT ![c] =
                             Ended([call EXCEPT !.deleteIssued = TRUE],
                                   "resolved", NoInstance, {})]
              /\ pobs' = [Forget(pobs, call.appName) EXCEPT
                            !.destroyed = @ \cup {call.name}]
         ELSE /\ Step(c, Rejected(Failed([call EXCEPT !.deleteIssued = TRUE], 0)))
              /\ UNCHANGED <<fly, pobs>>
  /\ UNCHANGED <<machineIds, snapshotIds, uuids, hcVars>>

\* createVolumeSnapshot of the instance's volume, up to its await
CreateVolumeSnapshot(c, moltbotName) ==
  /\ snapshotIds < MaxSnapshots
  /\ Begin(c, "createVolumeSnapshot", moltbotName, AppNameOf(moltbotName), 0,
           "snapshot.post")
  /\ UNCHANGED <<fly, machineIds, snapshotIds, uuids, hcVars>>

\* createVolumeSnapshot: POST /volumes/<id>/snapshots answered
SnapshotPost(c) ==
  LET call == calls[c] IN
  /\ call.pc = "snapshot.post"
  /\ \E ans \in IF fly[call.appName].volumeGb > 0
                  THEN Answers(call.appName) ELSE {"404", "error"} :
       IF ans = "ok"
         THEN /\ snapshotIds' = snapshotIds + 1
              /\ fly' = [fly EXCEPT ![call.appName] =
                           FlyAddSnapshot(@, snapshotIds + 1)]
              /\ Step(c, Ended([call EXCEPT !.snapshotId = snapshotIds + 1],
                               "resolved", NoInstance, {}))
         ELSE /\ Step(c, Rejected(Failed(call, 0)))
              /\ UNCHANGED <<fly, snapshotIds>>
  /\ UNCHANGED <<machineIds, uuids, pobs, hcVars>>

\* hideSnapshot, up to its first await
HideSnapshot(c, moltbotName, snapshotId) ==
  /\ Begin(c, "hideSnapshot", moltbotName, AppNameOf(moltbotName), snapshotId,
           "hide.machines")
  /\ UNCHANGED <<fly, machineIds, snapshotIds, uuids, hcVars>>

\* hideSnapshot: GET /machines answered; then getHiddenSnapshots begins
HideMachines(c) ==
  LET call == calls[c]
      app == fly[call.appName]
  IN
  /\ call.pc = "hide.machines"
  /\ \E ans \in Answers(call.appName) :
       IF ans = "ok" /\ app.machine # 0
         THEN Step(c, [call EXCEPT !.pc = "hidden.machines",
                                   !.machine = app.machine])
         ELSE Step(c, Rejected(Failed(call, 0)))
  /\ UNCHANGED <<fly, machineIds, snapshotIds, uuids, pobs, hcVars>>

\* the caller of getHiddenSnapshots continues with the list it returned:
\* hideSnapshot writes the joined list unless it includes the id; the
\* per-instance listing of the route filters the snapshots it fetched
AfterHidden(c, call, list) ==
  IF call.op = "hideSnapshot"
    THEN IF Includes(list, call.snapshotId)
           THEN /\ Step(c, Ended(call, "resolved", NoInstance, {}))
                /\ pobs' = [pobs EXCEPT !.hiddenOk[call.name] =
                                          @ \cup {call.snapshotId}]
           ELSE /\ Step(c, [call EXCEPT
                              !.pc = "hide.setMetadata",
                              !.hidden = Join(list \o <<call.snapshotId>>)])
                /\ UNCHANGED pobs
    ELSE /\ Step(c, Ended(call, "resolved", NoInstance,
                          {s \in call.found : ~Includes(list, s.id)}))
         /\ UNCHANGED pobs

\* getHiddenSnapshots: GET /machines answered ([] on failure or no machine)
HiddenMachines(c) ==
  LET call == calls[c]
      app == fly[call.appName]
  IN
  /\ call.pc = "hidden.machines"
  /\ \E ans \in Answers(call.appName) :
       IF ans = "ok" /\ app.machine # 0
         THEN /\ Step(c, [call EXCEPT !.pc = "hidden.metadata",
                                      !.n = app.machine])
              /\ UNCHANGED pobs
         ELSE AfterHidden(c, [call EXCEPT !.faulted = @ \/ ans = "error"], <<>>)
  /\ UNCHANGED <<fly, machineIds, snapshotIds, uuids, hcVars>>

\* getHiddenSnapshots: getMachineMetadata answered ({} when it failed);
\* hiddenStr ? hiddenStr.split(",").filter(Boolean) : []
HiddenMetadata(c) ==
  LET call == calls[c]
      app == fly[call.appName]
  IN
  /\ call.pc = "hidden.metadata"
  /\ \E ans \in Answers(call.appName) :
       LET hiddenStr == IF ans = "ok" /\ app.machine = call.n
                          THEN app.hidden ELSE <<>>
           list == IF hiddenStr # <<>> THEN Split(hiddenStr) ELSE <<>>
       IN AfterHidden(c, [call EXCEPT !.n = 0, !.faulted = @ \/ ans = "error"],
                      list)
  /\ UNCHANGED <<fly, machineIds, snapshotIds, uuids, hcVars>>

\* hideSnapshot: setMachineMetadata(appName, machineId, "hidden_snapshots",
\* newHidden) answered
HideSetMetadata(c) ==
  LET call == calls[c] IN
  /\ call.pc = "hide.setMetadata"
  /\ \E ans \in Answers(call.appName) :
       IF ans = "ok" /\ fly[call.appName].machine = call.machine
         THEN /\ fly' = [fly EXCEPT ![call.appName] =
                           FlySetHidden(@, call.hidden)]
              /\ Step(c, Ended(call, "resolved", NoInstance, {}))
              /\ pobs' = [pobs EXCEPT !.hiddenOk[call.name] =
                                        @ \cup {call.snapshotId}]
         ELSE /\ Step(c, Rejected(Failed(call, 0)))
              /\ UNCHANGED <<fly, pobs>>
  /\ UNCHANGED <<machineIds, snapshotIds, uuids, hcVars>>

\* GET /api/moltbots/:id/snapshots, up to its first await
ListSnapshots(c, id) ==
  /\ Begin(c, "listSnapshots", id, AppNameOf(id), 0, "route.listVolumes")
  /\ UNCHANGED <<fly, machineIds, snapshotIds, uuids, hcVars>>

\* the route: listVolumes answered
RouteListVolumes(c) ==
  LET call == calls[c] IN
  /\ call.pc = "route.listVolumes"
  /\ \E ans \in Answers(call.appName) :
       IF ans # "ok" THEN Step(c, Rejected(Failed(call, 0)))
       ELSE IF fly[call.appName].volumeGb = 0
         THEN Step(c, Ended(call, "resolved", NoInstance, {}))
       ELSE Step(c, [call EXCEPT !.pc = "route.listVolumeSnapshots"])
  /\ UNCHANGED <<fly, machineIds, snapshotIds, uuids, pobs, hcVars>>

\* the route: listVolumeSnapshots answered.  Promise.all issues it together
\* with getHiddenSnapshots; both only read, and the route continues when
\* both have answered
RouteListVolumeSnapshots(c) ==
  LET call == calls[c] IN
  /\ call.pc = "route.listVolumeSnapshots"
  /\ \E ans \in Answers(call.appName) :
       IF ans = "ok"
         THEN Step(c, [call EXCEPT
                         !.pc = "hidden.machines",
                         !.found = {[moltbotName |-> call.name, id |-> s] :
                                      s \in fly[call.appName].snapshots}])
         ELSE Step(c, Rejected(Failed(call, 0)))
  /\ UNCHANGED <<fly, machineIds, snapshotIds, uuids, pobs, hcVars>>

\* listAllSnapshots (GET /api/snapshots returns its result as it is), up
\* to its first await
ListAllSnapshots(c) ==
  /\ Begin(c, "listAllSnapshots", <<>>, <<>>, 0, "all.listMoltbotApps")
  /\ UNCHANGED <<fly, machineIds, snapshotIds, uuids, hcVars>>

\* the place of a snapshot summary in allSnapshots.sort((a, b) =>
\* new Date(b.createdAt).getTime() - new Date(a.createdAt).getTime()): the
\* remote API allots snapshot ids in the order of creation, so that a later
\* created_at is a larger id; the sort is stable
RECURSIVE SortNewestFirst(_)
SortNewestFirst(list) ==
  IF Len(list) <= 1 THEN list
  ELSE LET newest == CHOOSE i \in 1..Len(list) :
                       /\ \A j \in 1..Len(list) : list[j].id <= list[i].id
                       /\ \A j \in 1..(i - 1) : list[j].id < list[i].id
           others == [j \in 1..(Len(list) - 1) |->
                        IF j < newest THEN list[j] ELSE list[j + 1]]
       IN  <<list[newest]>> \o SortNewestFirst(others)

\* the first request listMoltbots and listAllSnapshots make for a listed
\* application
FirstFetch(op) ==
  IF op = "listMoltbots" THEN "list.machines" ELSE "all.listVolumes"

\* listMoltbots and listAllSnapshots: the loop over the listed applications
\* moves on; after the last one listAllSnapshots sorts what it collected
NextApp(call) ==
  IF Len(call.todo) <= 1
    THEN Ended([call EXCEPT !.listed =
                  IF call.op = "listAllSnapshots"
                    THEN SortNewestFirst(@) ELSE @],
               "resolved", NoInstance, call.found)
    ELSE [call EXCEPT !.pc = FirstFetch(call.op), !.todo = Tail(@)]

\* the catch blocks of the two loops: the application (or its volume) is
\* skipped
Skipped(call, error) ==
  [call EXCEPT !.faulted = @ \/ error,
               !.skipped = @ \cup {Head(call.todo)}]

\* listMoltbots and listAllSnapshots: listMoltbotApps answered, filtered by
\* the prefix
AllListApps(c) ==
  LET call == calls[c]
      apps == SelectSeq(AppOrder,
                LAMBDA a : fly[a].exists /\ StartsWith(a, MOLTBOT_APP_PREFIX))
  IN
  /\ call.pc = "all.listMoltbotApps"
  /\ \E ans \in GraphqlAnswers :
       IF ans # "ok" THEN Step(c, Rejected(Failed(call, 0)))
       ELSE IF Len(apps) = 0
         THEN Step(c, Ended(call, "resolved", NoInstance, {}))
       ELSE Step(c, [call EXCEPT !.pc = FirstFetch(call.op), !.todo = apps])
  /\ UNCHANGED <<fly, machineIds, snapshotIds, uuids, pobs, hcVars>>

\* listAllSnapshots: the instance name it derives from a listed application
ListedName(appName) == Slice(appName, Len(MOLTBOT_APP_PREFIX))

\* listAllSnapshots: the summaries pushed for the snapshots a volume
\* answered, in the order of the answer (oldest first)
RECURSIVE Pushed(_, _)
Pushed(moltbotName, snapshots) ==
  IF snapshots = {} THEN <<>>
  ELSE LET oldest == CHOOSE s \in snapshots : \A o \in snapshots : s <= o
       IN  <<[moltbotName |-> moltbotName, id |-> oldest]>>
             \o Pushed(moltbotName, snapshots \ {oldest})

\* listAllSnapshots: listVolumes(moltbotName) answered for the application
\* at the head of the loop; a failure skips the application
AllListVolumes(c) ==
  LET call == calls[c]
      target == AppNameOf(ListedName(Head(call.todo)))
  IN
  /\ call.pc = "all.listVolumes"
  /\ \E ans \in Answers(target) :
       IF ans = "ok" /\ fly[target].volumeGb > 0
         THEN Step(c, [call EXCEPT !.pc = "all.listVolumeSnapshots"])
         ELSE IF ans = "ok" THEN Step(c, NextApp(call))
         ELSE Step(c, NextApp(Skipped(call, ans = "error")))
  /\ UNCHANGED <<fly, machineIds, snapshotIds, uuids, pobs, hcVars>>

\* listAllSnapshots: listVolumeSnapshots(moltbotName, volume.id) answered;
\* a failure skips the volume
AllListVolumeSnapshots(c) ==
  LET call == calls[c]
      moltbotName == ListedName(Head(call.todo))
      target == AppNameOf(moltbotName)
  IN
  /\ call.pc = "all.listVolumeSnapshots"
  /\ \E ans \in Answers(target) :
       IF ans = "ok"
         THEN Step(c, NextApp([call EXCEPT
                !.found = @ \cup {[moltbotName |-> moltbotName, id |-> s] :
                                    s \in fly[target].snapshots},
                !.listed = @ \o Pushed(moltbotName, fly[target].snapshots)]))
         ELSE Step(c, NextApp(Skipped(call, ans = "error")))
  /\ UNCHANGED <<fly, machineIds, snapshotIds, uuids, pobs, hcVars>>

\* listMoltbots, up to its first await
ListMoltbots(c) ==
  /\ Begin(c, "listMoltbots", <<>>, <<>>, 0, "all.listMoltbotApps")
  /\ UNCHANGED <<fly, machineIds, snapshotIds, uuids, hcVars>>

\* listMoltbots: GET /machines answered for the application at the head of
\* the loop; an application without machines adds nothing, a failure skips
\* the application
ListMachines(c) ==
  LET call == calls[c]
      appName == Head(call.todo)
      app == fly[appName]
  IN
  /\ call.pc = "list.machines"
  /\ \E ans \in Answers(appName) :
       IF ans = "ok" /\ app.machine # 0
         THEN Step(c, [call EXCEPT
                         !.pc = "list.metadata",
                         !.machine = app.machine,
                         !.instance = mapMachineToInstance(app, appName)])
         ELSE IF ans = "ok" THEN Step(c, NextApp(call))
         ELSE Step(c, NextApp(Skipped(call, ans = "error")))
  /\ UNCHANGED <<fly, machineIds, snapshotIds, uuids, pobs, hcVars>>

\* listMoltbots: getMachineMetadata answered ({} when the request failed);
\* the instance is pushed with the token it holds
ListMetadata(c) ==
  LET call == calls[c]
      appName == Head(call.todo)
      app == fly[appName]
  IN
  /\ call.pc = "list.metadata"
  /\ \E ans \in Answers(appName) :
       LET token == IF ans = "ok" /\ app.machine = call.machine
                      THEN app.token ELSE 0
       IN Step(c, NextApp([call EXCEPT
                 !.faulted = @ \/ ans = "error",
                 !.instance = NoInstance,
                 !.listed = Append(@, [call.instance EXCEPT
                                         !.gatewayToken = token])]))
  /\ UNCHANGED <<fly, machineIds, snapshotIds, uuids, pobs, hcVars>>

\* the remote actions on a machine: POST /machines/<id>/start, /stop and
\* /restart begin a transition that Fly.io completes later
FlyAct(app, action) ==
  CASE action = "start" ->
         IF app.state = "started" THEN app ELSE [app EXCEPT !.state = "starting"]
    [] action = "stop" ->
         IF app.state = "stopped" THEN app ELSE [app EXCEPT !.state = "stopping"]
    [] OTHER -> [app EXCEPT !.state = "starting"]

\* Fly.io completes the transition of a machine
FlyProgress(appName) ==
  /\ fly[appName].machine # 0
  /\ fly[appName].state \in {"starting", "stopping"}
  /\ fly' = [fly EXCEPT ![appName].state =
                          IF @ = "starting" THEN "started" ELSE "stopped"]
  /\ UNCHANGED <<machineIds, snapshotIds, uuids, calls, pobs, hcVars>>

\* a stopMoltbot that waits for the state startMoltbot waits for
PowerActionOneTarget(op) ==
  CASE op = "startMoltbot" -> [action |-> "start", target |-> "started"]
    [] op = "stopMoltbot" -> [action |-> "stop", target |-> "started"]
    [] op = "updateMoltbot" -> [action |-> "update", target |-> "started"]
    [] OTHER -> [action |-> "restart", target |-> "started"]

\* the remote action and the state to wait for, by operation
PowerAction(op) ==
  CASE op = "startMoltbot" -> [action |-> "start", target |-> "started"]
    [] op = "stopMoltbot" -> [action |-> "stop", target |-> "stopped"]
    [] op = "updateMoltbot" -> [action |-> "update", target |-> "started"]
    [] OTHER -> [action |-> "restart", target |-> "started"]

\* an update that builds the configuration anew instead of copying it
UpdatedConfigRebuilt(machineConfig) == MachineConfig(LatestImage, 0, NoEnv)

\* updateMoltbot's updatedConfig: { ...machine.config, image: <latest> }
UpdatedConfig(machineConfig) == [machineConfig EXCEPT !.image = LatestImage]

\* startMoltbot, up to its first await
StartMoltbot(c, moltbotName) ==
  /\ Begin(c, "startMoltbot", moltbotName, AppNameOf(moltbotName), 0,
           "power.machines")
  /\ UNCHANGED <<fly, machineIds, snapshotIds, uuids, hcVars>>

\* stopMoltbot, up to its first await
StopMoltbot(c, moltbotName) ==
  /\ Begin(c, "stopMoltbot", moltbotName, AppNameOf(moltbotName), 0,
           "power.machines")
  /\ UNCHANGED <<fly, machineIds, snapshotIds, uuids, hcVars>>

\* restartMoltbot, up to its first await
RestartMoltbot(c, moltbotName) ==
  /\ Begin(c, "restartMoltbot", moltbotName, AppNameOf(moltbotName), 0,
           "power.machines")
  /\ UNCHANGED <<fly, machineIds, snapshotIds, uuids, hcVars>>

\* updateMoltbot, up to its first await
UpdateMoltbot(c, moltbotName) ==
  /\ Begin(c, "updateMoltbot", moltbotName, AppNameOf(moltbotName), 0,
           "power.machines")
  /\ UNCHANGED <<fly, machineIds, snapshotIds, uuids, hcVars>>

\* startMoltbot, stopMoltbot, restartMoltbot, updateMoltbot: GET /machines
\* answered; the machine is machines[0], and an empty list is an error
PowerMachines(c) ==
  LET call == calls[c]
      app == fly[call.appName]
  IN
  /\ call.pc = "power.machines"
  /\ \E ans \in Answers(call.appName) :
       IF ans # "ok" THEN Step(c, Rejected(Failed(call, 0)))
       ELSE IF app.machine = 0
         THEN Step(c, Rejected([call EXCEPT
                                  !.error = [kind |-> "no machine",
                                             at |-> call.pc, target |-> ""]]))
       ELSE Step(c, [call EXCEPT !.pc = "power.action",
                                 !.machine = app.machine,
                                 !.config = app.config])
  /\ UNCHANGED <<fly, machineIds, snapshotIds, uuids, pobs, hcVars>>

\* startMoltbot, stopMoltbot, restartMoltbot: the remote action answered;
\* updateMoltbot: POST /machines/<id> with the updated configuration
\* answered, Fly.io replaces the configuration and launches the machine;
\* then waitForState begins with the default timeout
PowerActed(c) ==
  LET call == calls[c]
      power == PowerAction(call.op)
      sent == IF call.op = "updateMoltbot" THEN UpdatedConfig(call.config)
              ELSE NoConfig
  IN
  /\ call.pc = "power.action"
  /\ \E ans \in Answers(call.appName) :
       IF ans = "ok" /\ fly[call.appName].machine = call.machine
         THEN /\ fly' = [fly EXCEPT ![call.appName] =
                           IF call.op = "updateMoltbot"
                             THEN FlySetConfig(FlyAct(@, power.action), sent)
                             ELSE FlyAct(@, power.action)]
              /\ Step(c, [call EXCEPT !.pc = "waitForState", !.n = 1,
                                      !.target = power.target,
                                      !.actions = @ + 1,
                                      !.sent = sent])
         ELSE /\ Step(c, Rejected(Failed([call EXCEPT !.actions = @ + 1,
                                                      !.sent = sent], 0)))
              /\ UNCHANGED fly
  /\ UNCHANGED <<machineIds, snapshotIds, uuids, pobs, hcVars>>

(***************************************************************************)
(* The provisioner's specifications.                                       *)
(***************************************************************************)
InitProv == Constructed(LifecycleConfig) /\ ProvConstructed

\* The life cycle of instances: create, deploy from a snapshot, get and
\* destroy, on an account that starts empty.
NextProv ==
  \/ \E c \in Sequential, n \in Names : CreateMoltbot(c, n)
  \/ \E c \in Sequential, s \in SnapshotIds, n \in Names : DeployFromSnapshot(c, s, n)
  \/ \E c \in Sequential : GetOrgId(c)
  \/ \E c \in Sequential : CreateApp(c)
  \/ \E c \in Sequential : AllocateSharedIp(c)
  \/ \E c \in Sequential : CreateVolume(c)
  \/ \E c \in Sequential : VolumeFromSnapshot(c)
  \/ \E c \in Sequential : ExtendVolume(c)
  \/ \E c \in Sequential : CreateMachine(c)
  \/ \E c \in Sequential : SetGatewayToken(c)
  \/ \E c \in Sequential : WaitForState(c)
  \/ \E c \in Sequential : InstallSudoAccess(c)
  \/ \E c \in Sequential : Cleanup(c)
  \/ \E a \in AppNames : FlyStarts(a)
  \/ \E c \in Sequential, n \in Names : GetMoltbot(c, n)
  \/ \E c \in Sequential : GetMachines(c)
  \/ \E c \in Sequential : GetMetadata(c)
  \/ \E c \in Sequential, n \in Names : DestroyMoltbot(c, n)
  \/ \E c \in Sequential : DestroyDeleteApp(c)
  \/ \E c \in Sequential, n \in Names : CreateVolumeSnapshot(c, n)
  \/ \E c \in Sequential : SnapshotPost(c)

SpecProv == InitProv /\ [][NextProv]_vars

\* the instance whose snapshots are hidden and listed
SnapNames == {<<"a">>}

\* The account as createMoltbot("a") leaves it when it resolves and Fly.io
\* has started the machine.
InitSnap ==
  /\ Constructed(LifecycleConfig)
  /\ fly = [a \in AppNames |->
              IF a = CreateAppName(<<"a">>)
                THEN FlyStarted(FlySetToken(FlySetConfig(FlyCreateMachine(
                       FlySetVolume(FlyAllocateIp(FlyCreateApp(NoApp)),
                                    DefaultVolumeGb), 1, <<"a">>),
                       MachineConfig(LatestImage, 1, NoEnv)), 1))
                ELSE NoApp]
  /\ machineIds = 1
  /\ snapshotIds = 0
  /\ uuids = 1
  /\ calls = [c \in Callers |-> IdleCall]
  /\ pobs = [NoPobs EXCEPT !.created[<<"a">>] = CreateAppName(<<"a">>)]

\* Snapshots of one instance: taking, hiding and listing them.
NextSnap ==
  \/ \E c \in Sequential, n \in SnapNames : CreateVolumeSnapshot(c, n)
  \/ \E c \in Sequential : SnapshotPost(c)
  \/ \E c \in Sequential, n \in SnapNames, s \in SnapshotIds : HideSnapshot(c, n, s)
  \/ \E c \in Sequential : HideMachines(c)
  \/ \E c \in Sequential : HiddenMachines(c)
  \/ \E c \in Sequential : HiddenMetadata(c)
  \/ \E c \in Sequential : HideSetMetadata(c)
  \/ \E c \in Sequential, n \in SnapNames : ListSnapshots(c, n)
  \/ \E c \in Sequential : RouteListVolumes(c)
  \/ \E c \in Sequential : RouteListVolumeSnapshots(c)
  \/ \E c \in Sequential : ListAllSnapshots(c)
  \/ \E c \in Sequential : AllListApps(c)
  \/ \E c \in Sequential : AllListVolumes(c)
  \/ \E c \in Sequential : AllListVolumeSnapshots(c)

SpecSnap == InitSnap /\ [][NextSnap]_vars

\* Two callers that each call hideSnapshot once for the instance "a", so
\* that the two calls overlap or follow each other.
NextHide ==
  \/ \E c \in Callers, n \in SnapNames, s \in SnapshotIds :
       calls[c].pc = "idle" /\ HideSnapshot(c, n, s)
  \/ \E c \in Callers : HideMachines(c)
  \/ \E c \in Callers : HiddenMachines(c)
  \/ \E c \in Callers : HiddenMetadata(c)
  \/ \E c \in Callers : HideSetMetadata(c)

SpecHide == InitSnap /\ [][NextHide]_vars

\* The account with the application of "a" but no machine in it, as a
\* createMoltbot("a") whose createVolume failed leaves it.
MachinelessAccount ==
  [a \in AppNames |->
     IF a = CreateAppName(<<"a">>)
       THEN FlyAllocateIp(FlyCreateApp(NoApp))
       ELSE NoApp]

\* The account as createMoltbot("a") leaves it when the caller passed an
\* image of its own in config.image.
OwnImageAccount ==
  [a \in AppNames |->
     IF a = CreateAppName(<<"a">>)
       THEN FlyStarted(FlySetToken(FlySetConfig(FlyCreateMachine(
              FlySetVolume(FlyAllocateIp(FlyCreateApp(NoApp)),
                           DefaultVolumeGb), 1, <<"a">>),
              MachineConfig("own image", 1, NoEnv)), 1))
       ELSE NoApp]

\* The account as InitSnap describes it, the one whose machine runs an image
\* of the caller, or the one without a machine.
InitPower ==
  \/ InitSnap
  \/ /\ Constructed(LifecycleConfig)
     /\ fly = OwnImageAccount
     /\ machineIds = 1
     /\ snapshotIds = 0
     /\ uuids = 1
     /\ calls = [c \in Callers |-> IdleCall]
     /\ pobs = [NoPobs EXCEPT !.created[<<"a">>] = CreateAppName(<<"a">>)]
  \/ /\ Constructed(LifecycleConfig)
     /\ fly = MachinelessAccount
     /\ machineIds = 0
     /\ snapshotIds = 0
     /\ uuids = 0
     /\ calls = [c \in Callers |-> IdleCall]
     /\ pobs = NoPobs

\* a state of the remote API (FlyMachine.state is any string) that
\* mapFlyState's table does not hold: the one of a machine whose
\* configuration is being replaced
UnknownFlyState == "replacing"

\* Fly.io begins to replace the configuration of a machine, on a request
\* that is not one of this controller's
FlyReplaces(appName) ==
  /\ fly[appName].machine # 0
  /\ fly[appName].state \in {"started", "stopping", "stopped"}
  /\ fly' = [fly EXCEPT ![appName].state = UnknownFlyState]
  /\ UNCHANGED <<machineIds, snapshotIds, uuids, calls, pobs, hcVars>>

\* Fly.io has replaced the configuration and launched the machine
FlyReplaced(appName) ==
  /\ fly[appName].machine # 0
  /\ fly[appName].state = UnknownFlyState
  /\ fly' = [fly EXCEPT ![appName] = FlyStarted(@)]
  /\ UNCHANGED <<machineIds, snapshotIds, uuids, calls, pobs, hcVars>>

\* Stopping the machine of an instance whose remote state also goes through
\* a state that mapFlyState does not know.
NextStop ==
  \/ \E c \in Sequential, n \in Names : StopMoltbot(c, n)
  \/ \E c \in Sequential : PowerMachines(c)
  \/ \E c \in Sequential : PowerActed(c)
  \/ \E c \in Sequential : WaitForState(c)
  \/ \E a \in AppNames : FlyProgress(a)
  \/ \E a \in AppNames : FlyReplaces(a)
  \/ \E a \in AppNames : FlyReplaced(a)

SpecStop == InitPower /\ [][NextStop]_vars

\* Starting, stopping, restarting and updating the machine of an instance.
NextPower ==
  \/ \E c \in Sequential, n \in Names : StartMoltbot(c, n)
  \/ \E c \in Sequential, n \in Names : StopMoltbot(c, n)
  \/ \E c \in Sequential, n \in Names : RestartMoltbot(c, n)
  \/ \E c \in Sequential, n \in Names : UpdateMoltbot(c, n)
  \/ \E c \in Sequential : PowerMachines(c)
  \/ \E c \in Sequential : PowerActed(c)
  \/ \E c \in Sequential : WaitForState(c)
  \/ \E c \in Sequential : InstallSudoAccess(c)
  \/ \E a \in AppNames : FlyProgress(a)

\* every request of a waitForState is answered, and its timer fires
SpecPower ==
  /\ InitPower
  /\ [][NextPower]_vars
  /\ WF_vars(\E c \in Sequential : WaitForState(c))

\* The operations that end with installSudoAccess: createMoltbot on an
\* empty account, and startMoltbot, restartMoltbot and updateMoltbot on the
\* accounts of InitPower.
InitSudo == InitProv \/ InitPower

NextSudo ==
  \/ NextPower
  \/ \E c \in Sequential, n \in SnapNames : CreateMoltbot(c, n)
  \/ \E c \in Sequential : GetOrgId(c)
  \/ \E c \in Sequential : CreateApp(c)
  \/ \E c \in Sequential : AllocateSharedIp(c)
  \/ \E c \in Sequential : CreateVolume(c)
  \/ \E c \in Sequential : CreateMachine(c)
  \/ \E c \in Sequential : SetGatewayToken(c)
  \/ \E c \in Sequential : Cleanup(c)
  \/ \E a \in AppNames : FlyStarts(a)

SpecSudo == InitSudo /\ [][NextSudo]_vars

\* The account as createMoltbot("a") and createMoltbot("moltbot-a") leave
\* it when both resolved and Fly.io has started the machines.
InitList ==
  LET created(id, name) ==
        FlyStarted(FlySetToken(FlySetConfig(FlyCreateMachine(
          FlySetVolume(FlyAllocateIp(FlyCreateApp(NoApp)), DefaultVolumeGb),
          id, name), MachineConfig(LatestImage, id, NoEnv)), id))
  IN
  /\ Constructed(LifecycleConfig)
  /\ fly = [a \in AppNames |->
              IF a = CreateAppName(<<"a">>) THEN created(1, <<"a">>)
              ELSE created(2, MOLTBOT_APP_PREFIX \o <<"a">>)]
  /\ machineIds = 2
  /\ snapshotIds = 0
  /\ uuids = 2
  /\ calls = [c \in Callers |-> IdleCall]
  /\ pobs = [NoPobs EXCEPT
               !.created = [n \in Names |-> CreateAppName(n)]]

\* Listing the instances and the snapshots of an account with two
\* instances, while snapshots are taken.
NextList ==
  \/ \E c \in Sequential : ListMoltbots(c)
  \/ \E c \in Sequential : ListAllSnapshots(c)
  \/ \E c \in Sequential : AllListApps(c)
  \/ \E c \in Sequential : ListMachines(c)
  \/ \E c \in Sequential : ListMetadata(c)
  \/ \E c \in Sequential : AllListVolumes(c)
  \/ \E c \in Sequential : AllListVolumeSnapshots(c)
  \/ \E c \in Sequential, n \in Names : CreateVolumeSnapshot(c, n)
  \/ \E c \in Sequential : SnapshotPost(c)

SpecList == InitList /\ [][NextList]_vars

\* Creating the instance "a" with and without a config.env, on an account
\* that starts empty.
NextEnv ==
  \/ \E c \in Sequential, n \in SnapNames, env \in CallerEnvs :
       CreateMoltbotWithEnv(c, n, env)
  \/ \E c \in Sequential : GetOrgId(c)
  \/ \E c \in Sequential : CreateApp(c)
  \/ \E c \in Sequential : AllocateSharedIp(c)
  \/ \E c \in Sequential : CreateVolume(c)
  \/ \E c \in Sequential : CreateMachine(c)
  \/ \E c \in Sequential : SetGatewayToken(c)
  \/ \E c \in Sequential : WaitForState(c)
  \/ \E c \in Sequential : InstallSudoAccess(c)
  \/ \E c \in Sequential : Cleanup(c)
  \/ \E a \in AppNames : FlyStarts(a)

SpecEnv == InitProv /\ [][NextEnv]_vars

\* the names a create is asked for: a slug, a name with a capital, the
\* empty name and a name of 51 characters
RouteNames == {<<"a">>, <<"A">>, <<>>, [i \in 1..51 |-> "a"]}

\* An empty account whose applications may take any of these names.
InitRoute ==
  /\ Constructed(LifecycleConfig)
  /\ fly = [a \in {CreateAppName(n) : n \in RouteNames} |-> NoApp]
  /\ machineIds = 0
  /\ snapshotIds = 0
  /\ uuids = 0
  /\ calls = [c \in Callers |-> IdleCall]
  /\ pobs = NoPobs

\* Creating instances through POST /api/moltbots and by calling
\* createMoltbot on the provisioner.
NextRoute ==
  \/ \E c \in Sequential, n \in RouteNames, k \in BOOLEAN : PostMoltbots(c, n, k)
  \/ \E c \in Sequential, n \in RouteNames : CreateMoltbot(c, n)
  \/ \E c \in Sequential : GetOrgId(c)
  \/ \E c \in Sequential : CreateApp(c)
  \/ \E c \in Sequential : AllocateSharedIp(c)
  \/ \E c \in Sequential : CreateVolume(c)
  \/ \E c \in Sequential : CreateMachine(c)
  \/ \E c \in Sequential : SetGatewayToken(c)
  \/ \E c \in Sequential : WaitForState(c)
  \/ \E c \in Sequential : InstallSudoAccess(c)
  \/ \E c \in Sequential : Cleanup(c)
  \/ \E a \in DOMAIN fly : FlyStarts(a)

SpecRoute == InitRoute /\ [][NextRoute]_vars

(***************************************************************************)
(* Properties of the provisioner.                                          *)
(***************************************************************************)
Settled(c, ops, outcome) ==
  /\ calls[c].op \in ops
  /\ calls[c].pc = "done"
  /\ calls[c].outcome = outcome

InFlight(c, ops) ==
  /\ calls[c].op \in ops
  /\ calls[c].pc \notin {"idle", "done"}

\* C1: when createMoltbot or deployFromSnapshot rejects because one of its
\* steps 1 to 6 failed (create application, allocate address, create or
\* fork and extend the volume, generate the token, build the machine
\* configuration, create the machine), it has issued a deleteApp for the
\* grouping 'moltbot-<name>' before rejecting.
C1_FailedCreateIssuesDeleteApp ==
  \A c \in Callers :
    (Settled(c, {"createMoltbot", "deployFromSnapshot"}, "rejected")
       /\ calls[c].step \in 1..6)
      => calls[c].deleteIssued

\* C4: an operation that takes an instance name (getMoltbot, destroyMoltbot,
\* hideSnapshot, and the others that derive the application name the same
\* way) addresses exactly the grouping createMoltbot made for that name,
\* names that begin with 'moltbot-' included; and two different created
\* names never address the same grouping.
C4_NameAddressesItsGrouping ==
  /\ \A c \in Callers :
       (InFlight(c, {"getMoltbot", "destroyMoltbot", "hideSnapshot"})
          /\ pobs.created[calls[c].name] # <<>>)
         => calls[c].appName = pobs.created[calls[c].name]
  /\ \A n, m \in Names :
       (n # m /\ pobs.created[n] # <<>> /\ pobs.created[m] # <<>>)
         => AppNameOf(n) # AppNameOf(m)

\* C5: when getMoltbot(name) is the call that directly follows a resolved
\* createMoltbot with that name, and none of its remote requests failed, it
\* resolves with an instance that has the id, the name and the gatewayToken
\* of the instance createMoltbot returned.
C5_GetAfterCreateMatches ==
  \A c \in Callers :
    (/\ calls[c].op = "getMoltbot"
     /\ calls[c].pc = "done"
     /\ ~calls[c].faulted
     /\ pobs.prev.op = "createMoltbot"
     /\ pobs.prev.outcome = "resolved"
     /\ pobs.prev.name = calls[c].name)
      => /\ calls[c].outcome = "resolved"
         /\ calls[c].instance.id = pobs.prev.instance.id
         /\ calls[c].instance.name = pobs.prev.instance.name
         /\ calls[c].instance.gatewayToken = pobs.prev.instance.gatewayToken

\* the hidden-snapshot id set an application's machine metadata stores
HiddenIds(app) == Elements(Split(app.hidden))

\* C6: as long as an instance's machine is not destroyed, no step of any
\* provisioner operation (a hideSnapshot whose metadata read fails
\* included) removes an id from the hidden-snapshot set stored in its
\* metadata.
C6_HiddenSetOnlyGrows ==
  [][\A a \in AppNames :
       (fly[a].machine # 0 /\ fly'[a].machine = fly[a].machine)
         => HiddenIds(fly[a]) \subseteq HiddenIds(fly'[a])]_vars

\* C7: a snapshot id for which hideSnapshot(name, s) has resolved is in no
\* later result of the per-instance snapshot listing for name and in no
\* later result of listAllSnapshots, already when every remote request of
\* the listing is served.
C7_HiddenSnapshotsNotListed ==
  \A c \in Callers :
    (Settled(c, {"listSnapshots", "listAllSnapshots"}, "resolved")
       /\ ~calls[c].faulted)
      => \A e \in calls[c].listing : e.id \notin pobs.hiddenOk[e.moltbotName]

PowerOps == {"startMoltbot", "stopMoltbot", "restartMoltbot"}

\* C11: every waitForState ends; its caller goes on with an instance only
\* if the poll observed the machine in the target status (the instance has
\* that status); it polls no further once the deadline has passed and then
\* rejects with a timeout error that names the target state.
C11_WaitEndsOnTargetOrTimeout ==
  /\ [](\A c \in Callers :
          /\ (calls[c].pc = "installSudoAccess"
                \/ Settled(c, PowerOps, "resolved"))
               => calls[c].instance.status = calls[c].target
          /\ calls[c].pc = "waitForState" => calls[c].n <= MaxPolls
          /\ (Settled(c, PowerOps, "rejected")
                /\ calls[c].error.kind = "timeout")
               => calls[c].error.target = calls[c].target)
  /\ \A c \in Callers :
       (calls[c].pc = "waitForState") ~> (calls[c].pc # "waitForState")

\* C11's case: a stopMoltbot whose waitForState observed "stopped"
C11_Witness ==
  \E c \in Callers :
    /\ Settled(c, {"stopMoltbot"}, "resolved")
    /\ calls[c].instance.status = "stopped"
    /\ fly[AppNameOf(calls[c].name)].state = "stopped"

\* C12: startMoltbot and restartMoltbot resolve only with an instance whose
\* status is 'started', stopMoltbot only with one whose status is
\* 'stopped'; each locates the machine before its one remote action and
\* polls only after it, for that state; without a machine the call rejects
\* before any remote action.
C12_PowerOperations ==
  \A c \in Callers :
    /\ Settled(c, {"startMoltbot", "restartMoltbot"}, "resolved")
         => /\ calls[c].instance.status = "started"
            /\ calls[c].instance.id # 0
            /\ calls[c].actions = 1
    /\ Settled(c, {"stopMoltbot"}, "resolved")
         => /\ calls[c].instance.status = "stopped"
            /\ calls[c].instance.id # 0
            /\ calls[c].actions = 1
    /\ (calls[c].op \in PowerOps /\ calls[c].pc = "power.action")
         => calls[c].machine # 0 /\ calls[c].actions = 0
    /\ (calls[c].op \in PowerOps
          /\ calls[c].pc \in {"waitForState", "installSudoAccess"})
         => /\ calls[c].machine # 0
            /\ calls[c].actions = 1
            /\ calls[c].target =
                 IF calls[c].op = "stopMoltbot" THEN "stopped" ELSE "started"
    /\ (Settled(c, PowerOps, "rejected")
          /\ calls[c].error.kind = "no machine")
         => calls[c].actions = 0

\* C12's case: a restartMoltbot that resolved after its one remote action
C12_Witness ==
  \E c \in Callers :
    /\ Settled(c, {"restartMoltbot"}, "resolved")
    /\ calls[c].instance.status = "started"
    /\ calls[c].actions = 1

\* C13: when createMoltbot or deployFromSnapshot rejects after its
\* compensating deleteApp, the error the caller receives is the error of the
\* step that failed (the machine request, the token metadata or the wait),
\* also when the deleteApp failed too; it is never the error of deleteApp.
C13_OriginalErrorRethrown ==
  \A c \in Callers :
    (Settled(c, Creating, "rejected") /\ calls[c].deleteIssued)
      => /\ calls[c].error.kind # "none"
         /\ calls[c].error.at \in
              {"createMachine", "setMachineMetadata", "waitForState"}
         /\ calls[c].step \in 6..8

\* C13's case: the machine request failed and the deleteApp failed as well
C13_Witness ==
  \E c \in Callers :
    /\ Settled(c, Creating, "rejected")
    /\ calls[c].cleanupFailed
    /\ calls[c].error = ApiError("createMachine")
    /\ fly[CreateAppName(calls[c].name)].exists

\* C14: getMoltbot turns into null only the absence of the grouping (a 404
\* answer) or of its machine (an empty list); when its GET /machines request
\* fails in any other way (a 500 answer, whatever its text) it rejects.
C14_OnlyAbsenceGivesNull ==
  \A c \in Callers :
    (Settled(c, {"getMoltbot"}, "resolved") /\ calls[c].instance.id = 0)
      => calls[c].error.kind \in {"none", "404"}

\* C15: destroyMoltbot resolves after one deleteApp and no poll, and from
\* then on getMoltbot with the same name resolves with null, until a create
\* or deploy for that name is called.
C15_DestroyedStaysAbsent ==
  \A c \in Callers :
    /\ Settled(c, {"destroyMoltbot"}, "resolved") => calls[c].deleteIssued
    /\ (Settled(c, {"getMoltbot"}, "resolved")
          /\ calls[c].name \in pobs.destroyed)
         => calls[c].instance.id = 0

(***************************************************************************)
(* Properties of the health checker's error handling and policy.           *)
(***************************************************************************)
\* the subscribers of one event were invoked equally often, and none more
\* often than one registered before it
EvenlyInvoked(invoked, n) ==
  \A s \in 1..n : invoked[s] = invoked[1]

InOrder(invoked, n) ==
  \A s \in 1..n : \A r \in 1..s : invoked[r] >= invoked[s]

\* C16: no exception of a health check or of a restart attempt escapes the
\* scheduled check.  A provisioner lookup that throws is applied as a failed
\* check (consecutiveFailures incremented, details updated to the state
\* "unknown"), a restartMoltbot that settles, by a rejection too, ends the
\* check with the record as the failed check left it, no call of
\* performHealthCheck ends with an exception, and the instance keeps its
\* timer (or the registration that is about to set it), so later scheduled
\* checks still run.
C16_ChecksNeverThrow ==
  /\ [](\A t \in Tasks : tasks[t].pc # "escaped")
  /\ [](\A v \in VmIds :
          statuses[v] # 0 =>
            \/ intervals[v] # 0 /\ intervals[v] \in timers
            \/ \E t \in Tasks : /\ tasks[t].kind = "monitor"
                                /\ tasks[t].vmId = v
                                /\ tasks[t].pc \in {"checkHealth", "notifyHealthy",
                                                    "notifyUnhealthy",
                                                    "restartMoltbot", "setInterval"})
  /\ [][\A t \in Tasks :
          (/\ tasks[t].pc = "restartMoltbot"
           /\ tasks'[t].pc # "restartMoltbot"
           /\ statuses[tasks[t].vmId] = tasks[t].ref)
            => /\ tasks'[t].pc \in {"idle", "setInterval"}
               /\ heap'[tasks[t].ref] = heap[tasks[t].ref]]_vars
  /\ [][\A ref \in Regs :
          (/\ Len(obs'[ref].history) = Len(obs[ref].history) + 1
           /\ heap'[ref].details.error = <<"provisioner error">>)
            => /\ heap'[ref].consecutiveFailures = heap[ref].consecutiveFailures + 1
               /\ heap'[ref].details.machineState = "unknown"
               /\ heap'[ref].details.gatewayReachable = FALSE
               /\ obs'[ref].history = Append(obs[ref].history, FALSE)]_vars

\* C16's case: the lookup of the last check threw, a restartMoltbot of this
\* run of failures was rejected, and a later check of the timer is running
C16_Witness ==
  \E v \in VmIds :
    /\ statuses[v] # 0
    /\ obs[statuses[v]].rejected
    /\ heap[statuses[v]].details.error = <<"provisioner error">>
    /\ Len(obs[statuses[v]].history) >= 2
    /\ intervals[v] \in timers
    /\ \E t \in Tasks : /\ tasks[t].kind = "timer"
                        /\ tasks[t].vmId = v
                        /\ tasks[t].pc = "checkHealth"

\* C17: a throwing onUnhealthy or onHealthy subscriber stops nothing.  Once
\* a notification is over every subscriber of the event has been invoked as
\* often as the first one, at no time has a subscriber been invoked more often
\* than one registered before it, the check does not end with an exception,
\* and when the onUnhealthy notification ends with a restart due
\* (autoRestart, attempts left) restartMoltbot is called.
C17_ThrowingSubscriberStopsNothing ==
  /\ [](\A ref \in Regs :
          /\ InOrder(obs[ref].unhealthyCalls, unhealthyCallbacks)
          /\ InOrder(obs[ref].healthyCalls, healthyCallbacks)
          /\ ~Notifying(ref, "notifyUnhealthy") =>
               EvenlyInvoked(obs[ref].unhealthyCalls, unhealthyCallbacks)
          /\ ~Notifying(ref, "notifyHealthy") =>
               EvenlyInvoked(obs[ref].healthyCalls, healthyCallbacks))
  /\ [](\A t \in Tasks : tasks[t].pc # "escaped")
  /\ [][\A t \in Tasks :
          (/\ tasks[t].pc = "notifyUnhealthy"
           /\ tasks'[t].pc # "notifyUnhealthy"
           /\ config.autoRestart
           /\ MayRestart(heap[tasks[t].ref]))
            => /\ tasks'[t].pc = "restartMoltbot"
               /\ obs'[tasks[t].ref].restartCalls =
                    obs[tasks[t].ref].restartCalls + 1]_vars

\* C17's case: an onUnhealthy subscriber threw, both subscribers were
\* invoked, and the restart that was due has been issued
C17_Witness ==
  \E t \in Tasks :
    /\ tasks[t].pc = "restartMoltbot"
    /\ tasks[t].threw
    /\ unhealthyCallbacks = 2
    /\ obs[tasks[t].ref].unhealthyCalls = [s \in Subs |-> 1]

\* C18: with failureThreshold >= 1 a status record has healthy = false
\* exactly when its consecutiveFailures >= failureThreshold; with 1 to
\* failureThreshold - 1 consecutive failures it has healthy = true.
C18_UnhealthyExactlyAtThreshold ==
  \A v \in VmIds :
    statuses[v] # 0 =>
      (heap[statuses[v]].healthy = FALSE
         <=> heap[statuses[v]].consecutiveFailures >= config.failureThreshold)

\* C18's case: one failure under a threshold of 2, still healthy
C18_Witness ==
  \E v \in VmIds :
    /\ statuses[v] # 0
    /\ config.failureThreshold = 2
    /\ heap[statuses[v]].consecutiveFailures = 1
    /\ heap[statuses[v]].healthy = TRUE
    /\ obs[statuses[v]].history = <<FALSE>>

\* C19: a successful check sets consecutiveFailures and restartAttempts to
\* 0, and starts the onHealthy notification (invoking the first subscriber
\* at once) exactly when the record had healthy = false before the check; a
\* success of a record with healthy = true invokes no subscriber.
C19_SuccessResetsAndNotifiesRecovery ==
  [][\A ref \in Regs :
       obs'[ref].history = Append(obs[ref].history, TRUE) =>
         /\ heap'[ref].consecutiveFailures = 0
         /\ heap'[ref].restartAttempts = 0
         /\ heap'[ref].healthy = TRUE
         /\ (\E t \in Tasks : /\ tasks[t].pc = "checkHealth"
                              /\ tasks'[t].pc = "notifyHealthy"
                              /\ tasks'[t].ref = ref)
              <=> heap[ref].healthy = FALSE
         /\ obs'[ref].unhealthyCalls = obs[ref].unhealthyCalls
         /\ IF heap[ref].healthy = FALSE /\ healthyCallbacks >= 1
            THEN obs'[ref].healthyCalls =
                   [obs[ref].healthyCalls EXCEPT ![1] = @ + 1]
            ELSE obs'[ref].healthyCalls = obs[ref].healthyCalls]_vars

\* C19's case: a record made unhealthy by one failure, with a restart
\* attempted, has recovered by one success and its subscriber was invoked
C19_Witness ==
  \E v \in VmIds :
    /\ statuses[v] # 0
    /\ config.failureThreshold = 1
    /\ config.autoRestart
    /\ config.maxRestartAttempts >= 1
    /\ obs[statuses[v]].history = <<FALSE, TRUE>>
    /\ heap[statuses[v]].consecutiveFailures = 0
    /\ heap[statuses[v]].restartAttempts = 0
    /\ healthyCallbacks >= 1
    /\ obs[statuses[v]].healthyCalls[1] = 1

\* C20: checkHealth probes the gateway only when getMoltbot returned an
\* instance with status "started".  For a missing instance it returns
\* healthy = false with machineState "not_found", and for an instance with
\* any other status healthy = false with machineState equal to that status,
\* in both cases without a probe request.
C20_ProbeOnlyWhenStarted ==
  healthCheck.pc = "returned" =>
    LET vm == healthCheck.vm
        result == healthCheck.result
    IN  /\ result.probed => vm.kind = "vm" /\ vm.status = "started"
        /\ vm.kind = "null" =>
             /\ result.healthy = FALSE
             /\ result.machineState = "not_found"
             /\ ~result.probed
        /\ (vm.kind = "vm" /\ vm.status # "started") =>
             /\ result.healthy = FALSE
             /\ result.machineState = vm.status
             /\ ~result.probed

\* C20's case: a stopped instance with a private address and a gateway that
\* would answer, for which checkHealth returned without probing
C20_Witness ==
  /\ healthCheck.pc = "returned"
  /\ healthCheck.vm = Vm("stopped", TRUE)
  /\ healthCheck.gw = GwOk
  /\ healthCheck.result.healthy = FALSE
  /\ healthCheck.result.machineState = "stopped"
  /\ ~healthCheck.result.probed

\* the probe was made and answered with a 2xx status
Answered2xx(vm, gw) ==
  /\ vm.kind = "vm"
  /\ vm.status = "started"
  /\ vm.privateIp
  /\ gw.kind \in {"ok", "badbody"}

\* C21 as stated: checkHealth returns healthy = true if and only if the
\* instance exists, has status "started", has a private IP and the probe
\* answered 2xx.
C21_HealthyIffProbe2xx ==
  healthCheck.pc = "returned" =>
    (healthCheck.result.healthy <=> Answered2xx(healthCheck.vm, healthCheck.gw))

\* C21, corrected: checkHealth returns healthy = true if and only if the
\* instance exists, has status "started", has a private IP, the probe
\* answered 2xx and the body of the answer parsed as JSON; the parsed body
\* is then attached.  A missing private IP, a 2xx answer whose body does not
\* parse, a non-2xx answer, a probe timeout and a connection error each give
\* healthy = false with gatewayReachable = false and an error text, and in
\* every result gatewayReachable equals healthy.
C21_HealthyIffProbeParsed ==
  healthCheck.pc = "returned" =>
    LET vm == healthCheck.vm
        gw == healthCheck.gw
        result == healthCheck.result
    IN  /\ result.healthy <=> (Answered2xx(vm, gw) /\ gw.kind = "ok")
        /\ result.healthy => result.gatewayResponse = HealthBody
        /\ ~result.healthy =>
             /\ result.gatewayResponse = NoResponse
             /\ result.error # NoError
        /\ result.gatewayReachable = result.healthy

\* C21's case: a started instance with a private IP whose gateway answered
\* 2xx with a JSON body
C21_Witness ==
  /\ healthCheck.pc = "returned"
  /\ healthCheck.vm = Vm("started", TRUE)
  /\ healthCheck.gw = GwOk
  /\ healthCheck.result.healthy
  /\ healthCheck.result.gatewayResponse = HealthBody

\* the operations that call installSudoAccess before they return
SudoOps == {"createMoltbot", "startMoltbot", "restartMoltbot", "updateMoltbot"}

\* C22: a failure of installSudoAccess, even of every attempt, never makes
\* createMoltbot, startMoltbot, restartMoltbot or updateMoltbot reject.  The
\* step is at attempt 1 to 10; after an attempt it either makes the next
\* attempt or returns, and the calling operation then resolves with its
\* instance.
C22_SudoFailureIsNotFatal ==
  /\ [](\A c \in Callers :
          calls[c].pc = "installSudoAccess" =>
            /\ calls[c].op \in SudoOps
            /\ calls[c].n >= 1
            /\ calls[c].n <= maxRetries)
  /\ [][\A c \in Callers :
          (calls[c].pc = "installSudoAccess" /\ calls'[c] # calls[c]) =>
            \/ /\ calls'[c].pc = "installSudoAccess"
               /\ calls'[c].n = calls[c].n + 1
            \/ /\ calls'[c].pc = "done"
               /\ calls'[c].outcome = "resolved"
               /\ calls'[c].instance.id = calls[c].machine
               /\ calls'[c].instance.id # 0]_vars

\* C22's case: a createMoltbot that resolved with its instance although the
\* last attempt of installSudoAccess had failed
C22_Witness ==
  \E c \in Callers :
    /\ Settled(c, {"createMoltbot"}, "resolved")
    /\ calls[c].sudoFailed
    /\ calls[c].instance.id # 0

\* C23: updateMoltbot sends the configuration it read from the machine with
\* only the image replaced: env (with the gateway token), mounts, guest,
\* services and checks are those read before the update; the machine then
\* has the configuration sent, and no step of the update changes a volume
\* or a snapshot.
C23_UpdateReplacesOnlyImage ==
  /\ [](\A c \in Callers :
          (calls[c].op = "updateMoltbot" /\ calls[c].actions = 1) =>
            /\ calls[c].sent.image = LatestImage
            /\ calls[c].sent.env = calls[c].config.env
            /\ calls[c].sent.mounts = calls[c].config.mounts
            /\ calls[c].sent.guest = calls[c].config.guest
            /\ calls[c].sent.services = calls[c].config.services
            /\ calls[c].sent.checks = calls[c].config.checks
            /\ Settled(c, {"updateMoltbot"}, "resolved") =>
                 fly[AppNameOf(calls[c].name)].config = calls[c].sent)
  /\ [][\A c \in Callers :
          (calls'[c].op = "updateMoltbot" /\ calls[c].op = "updateMoltbot") =>
            \A a \in AppNames :
              /\ fly'[a].volumeGb = fly[a].volumeGb
              /\ fly'[a].snapshots = fly[a].snapshots
              /\ fly'[a].token = fly[a].token]_vars

\* C23's case: an updateMoltbot that resolved for a machine that ran another
\* image and carries a gateway token in its env
C23_Witness ==
  \E c \in Callers :
    /\ Settled(c, {"updateMoltbot"}, "resolved")
    /\ calls[c].config.image # LatestImage
    /\ calls[c].config.env # NoEnv
    /\ calls[c].sent = [calls[c].config EXCEPT !.image = LatestImage]
    /\ fly[AppNameOf(calls[c].name)].volumeGb = DefaultVolumeGb

\* C24: a hideSnapshot call for an id that is already in the stored hidden
\* set performs no metadata write (it never comes to its
\* setMachineMetadata request), and the stored list holds no id twice.
C24_HideTwiceIsHideOnce ==
  /\ \A c \in Callers :
       (calls[c].op = "hideSnapshot" /\ calls[c].pc = "hide.setMetadata")
         => calls[c].snapshotId \notin HiddenIds(fly[calls[c].appName])
  /\ \A a \in AppNames :
       Cardinality(HiddenIds(fly[a])) = Len(Split(fly[a].hidden))

ListedApps ==
  SelectSeq(AppOrder, LAMBDA a : fly[a].exists /\ StartsWith(a, MOLTBOT_APP_PREFIX))

\* what a listing holds of the applications it did not skip: hostnames of
\* the instances, or the summaries of their snapshots
KeptInstances(call) ==
  SelectSeq(ListedApps, LAMBDA a : a \notin call.skipped /\ fly[a].machine # 0)

KeptSnapshots(call) ==
  LET kept == SelectSeq(ListedApps, LAMBDA a : a \notin call.skipped)
      of[i \in 0..Len(kept)] ==
        IF i = 0 THEN <<>>
        ELSE of[i - 1] \o Pushed(ListedName(kept[i]), fly[kept[i]].snapshots)
  IN  SortNewestFirst(of[Len(kept)])

\* C26 (listMoltbots): once the applications are listed the call resolves,
\* and it returns the instances of exactly the applications whose requests
\* did not fail, in the order of the applications.
C26_ListMoltbotsSkipsOnlyFailed ==
  \A c \in Callers :
    (calls[c].op = "listMoltbots" /\ calls[c].pc = "done") =>
      /\ calls[c].outcome = "rejected" =>
            calls[c].error.at = "all.listMoltbotApps"
      /\ calls[c].outcome = "resolved" =>
            [i \in 1..Len(calls[c].listed) |-> calls[c].listed[i].hostname]
              = KeptInstances(calls[c])

\* C26: in listMoltbots and listAllSnapshots a failure while fetching the
\* details of one application (or of one volume) only removes that
\* application's items: the call resolves once the applications are listed,
\* and its result holds the items of every other application, in their
\* order.
C26_FailedFetchOnlyRemovesItsItem ==
  /\ C26_ListMoltbotsSkipsOnlyFailed
  /\ \A c \in Callers :
       (calls[c].op = "listAllSnapshots" /\ calls[c].pc = "done") =>
         /\ calls[c].outcome = "rejected" =>
               calls[c].error.at = "all.listMoltbotApps"
         /\ calls[c].outcome = "resolved" =>
               calls[c].listed = KeptSnapshots(calls[c])

\* a listing resolved after it skipped one application and kept another
C26_Witness ==
  \E c \in Callers :
    /\ Settled(c, {"listMoltbots"}, "resolved")
    /\ calls[c].skipped # {}
    /\ Len(calls[c].listed) > 0

\* C27 (HTTP route): a createMoltbot that POST /api/moltbots has begun
\* carries a name in the slug format; a request with any other name has
\* been rejected by the schema and never awaits a remote request.
C27_RouteRejectsBadName ==
  \A c \in Callers :
    (calls[c].route = "POST /api/moltbots" /\ ~IsSlug(calls[c].name)) =>
      /\ calls[c].pc = "done"
      /\ calls[c].outcome = "rejected"
      /\ calls[c].error.kind = "ZodError"

\* a request with a name of 51 characters was rejected by the route
C27_Witness ==
  \E c \in Callers :
    /\ calls[c].route = "POST /api/moltbots"
    /\ Len(calls[c].name) > 50
    /\ Settled(c, {"createMoltbot"}, "rejected")

\* C27: a create whose name is not in the slug format (lowercase letters,
\* digits and hyphens, 1 to 50 characters) is rejected before any remote
\* request is made, through the HTTP route and when createMoltbot is called
\* on the provisioner: no such create awaits a remote request or has made
\* one.
C27_BadNameRejectedBeforeRemoteCall ==
  \A c \in Callers :
    (calls[c].op = "createMoltbot" /\ ~IsSlug(calls[c].name)) =>
      /\ calls[c].pc = "done"
      /\ calls[c].outcome = "rejected"
      /\ calls[c].error.at = ""

CheckPcs == {"checkHealth", "notifyHealthy", "notifyUnhealthy", "restartMoltbot"}

\* C29: a step of a health check for one instance (the result applied, a
\* subscriber called, a restart attempted) leaves the status record of
\* every other instance as it is: the entry of the statuses map, and the
\* healthy flag, the counters and the details of the object.
C29_CheckOfOneLeavesOthers ==
  [][\A t \in Tasks :
       (tasks[t].pc \in CheckPcs /\ tasks'[t] # tasks[t]) =>
         \A v \in VmIds \ {tasks[t].vmId} :
           /\ statuses'[v] = statuses[v]
           /\ statuses[v] # 0 => heap'[statuses[v]] = heap[statuses[v]]]_vars

\* two instances are monitored, the checks of one failed and its restart
\* is attempted, while the record of the other holds no failure
C29_Witness ==
  /\ statuses["vm-1"] # 0
  /\ statuses["vm-2"] # 0
  /\ \E t \in Tasks : tasks[t].vmId = "vm-2" /\ tasks[t].pc = "restartMoltbot"
  /\ ~heap[statuses["vm-2"]].healthy
  /\ heap[statuses["vm-1"]].healthy
  /\ heap[statuses["vm-1"]].consecutiveFailures = 0
  /\ Len(obs[statuses["vm-1"]].history) > 0

\* the remote calls of createMoltbot, in the order of its text (createApp
\* asks for the organization first)
CreateOrder ==
  <<"getOrgId", "createApp", "allocateSharedIp", "createVolume",
    "createMachine", "setMachineMetadata", "waitForState", "installSudoAccess">>

PlaceOf(pc) == CHOOSE k \in 1..Len(CreateOrder) : CreateOrder[k] = pc

C31_RestartWhenEnabledAndAllowed ==
  /\ [](~config.autoRestart =>
          /\ \A ref \in Regs : obs[ref].restartCalls = 0
          /\ \A t \in Tasks : tasks[t].pc # "restartMoltbot")
  /\ [][\A t \in Tasks :
         (tasks[t].pc = "notifyUnhealthy" /\ tasks'[t].pc # "notifyUnhealthy") =>
           LET ref == tasks[t].ref IN
           IF /\ config.autoRestart
              /\ heap[ref].restartAttempts < config.maxRestartAttempts
           THEN /\ tasks'[t].pc = "restartMoltbot"
                /\ tasks'[t].vmId = heap[ref].vmId
                /\ heap'[ref].restartAttempts = heap[ref].restartAttempts + 1
                /\ obs'[ref].restartCalls = obs[ref].restartCalls + 1
           ELSE /\ tasks'[t].pc # "restartMoltbot"
                /\ heap'[ref].restartAttempts = heap[ref].restartAttempts
                /\ obs'[ref].restartCalls = obs[ref].restartCalls]_vars

\* the check that crossed the threshold of 2 has led to the first restart
C31_Witness ==
  \E t \in Tasks :
    /\ tasks[t].pc = "restartMoltbot"
    /\ config.failureThreshold = 2
    /\ obs[tasks[t].ref].history = <<FALSE, FALSE>>
    /\ heap[tasks[t].ref].restartAttempts = 1
    /\ obs[tasks[t].ref].restartCalls = 1

\* C32: the onUnhealthy subscribers are invoked once per change of the
\* healthy flag from true to false: a check whose result starts the
\* notification found the record healthy and leaves it unhealthy.
C32_NotifiedOncePerChange ==
  [][\A ref \in Regs :
       (/\ obs'[ref].history = Append(obs[ref].history, FALSE)
        /\ obs'[ref].unhealthyCalls # obs[ref].unhealthyCalls) =>
          /\ heap[ref].healthy
          /\ ~heap'[ref].healthy]_vars

\* C33: when createMoltbot has resolved, the OPENCLAW_GATEWAY_TOKEN of the
\* machine's environment, the gateway_token of the machine's metadata and
\* the gatewayToken of the returned instance are one value, whatever
\* config.env the caller passed.
C33_OneGatewayToken ==
  \A c \in Callers :
    Settled(c, {"createMoltbot"}, "resolved") =>
      LET app == fly[CreateAppName(calls[c].name)] IN
      /\ app.token = calls[c].instance.gatewayToken
      /\ app.config.env.OPENCLAW_GATEWAY_TOKEN = Generated(app.token)

\* C34: under every interleaving of monitorVM calls (two overlapping calls
\* for one id included) an id has at most one timer, and every timer that
\* was created and not yet cleared is the one the intervals map holds for
\* its id, so that a later stopMonitoringVM(id) or stopMonitoring() clears it.
C34_OneTimerPerIdAndStoppable ==
  /\ \A v \in VmIds : Cardinality({h \in timers : timerVm[h] = v}) <= 1
  /\ \A h \in timers : intervals[timerVm[h]] = h

\* C35: whenever the intervals map holds a timer for an id, the statuses map
\* holds a record for it, under every interleaving of monitorVM with
\* stopMonitoring and stopMonitoringVM; an id that monitorVM refuses as
\* already monitored therefore has a status.
C35_TimerImpliesStatus ==
  \A v \in VmIds : intervals[v] # 0 => statuses[v] # 0

\* C36: after stopMonitoringVM(id) or stopMonitoring() has returned (and
\* until monitorVM(id) is called again) the checker issues no restart and
\* invokes no onUnhealthy or onHealthy subscriber for id, even if a check of
\* id was in progress at the stop.
C36_NothingAfterStop ==
  [][\A r \in Regs :
       (heap[r].vmId # "" /\ stopped[heap[r].vmId]) =>
          /\ obs'[r].restartCalls <= obs[r].restartCalls
          /\ \A s \in Subs :
               /\ obs'[r].unhealthyCalls[s] <= obs[r].unhealthyCalls[s]
               /\ obs'[r].healthyCalls[s] <= obs[r].healthyCalls[s]]_vars

\* C37: at most one health check of an instance is in progress at a time
\* (and so at most one restart): a timer starts no check while the previous
\* check of its instance has not finished.
C37_OneCheckPerInstance ==
  \A v \in VmIds :
    Cardinality({t \in Tasks : tasks[t].vmId = v /\ tasks[t].pc \in CheckPcs}) <= 1

\* the steps of createMoltbot that follow the creation of the machine and
\* whose failure is caught: the metadata write and the wait for 'started'
AfterMachineCreated == {"setMachineMetadata", "waitForState"}

\* C38 as stated: when createMoltbot rejects because the metadata write
\* failed or the machine did not reach 'started' before the deadline, the
\* grouping (with its machine and its volume) no longer exists.
C38_FailedCreateLeavesNoGrouping ==
  \A c \in Callers :
    (Settled(c, {"createMoltbot"}, "rejected")
       /\ calls[c].error.at \in AfterMachineCreated)
      => fly[CreateAppName(calls[c].name)] = NoApp

\* C38, corrected: when createMoltbot rejects because the metadata write
\* failed or the machine did not reach 'started' before the deadline, it
\* has issued a deleteApp for the grouping and awaited its answer; the
\* grouping (with its machine and its volume) no longer exists unless that
\* deleteApp failed, which createMoltbot ignores.
C38_FailedCreateDeletesUnlessCleanupFails ==
  \A c \in Callers :
    (Settled(c, {"createMoltbot"}, "rejected")
       /\ calls[c].error.at \in AfterMachineCreated)
      => /\ calls[c].deleteIssued
         /\ ~calls[c].cleanupFailed =>
              fly[CreateAppName(calls[c].name)] = NoApp

\* C38's case: createMoltbot rejected with the timeout of its wait for
\* 'started' after a deleteApp that succeeded
C38_Witness ==
  \E c \in Callers :
    /\ Settled(c, {"createMoltbot"}, "rejected")
    /\ calls[c].error.kind = "timeout"
    /\ calls[c].error.at = "waitForState"
    /\ calls[c].deleteIssued
    /\ ~calls[c].cleanupFailed
    /\ fly[CreateAppName(calls[c].name)] = NoApp

\* C39: stopMoltbot resolves only on a poll that found the remote machine
\* in the state 'stopped'; in any other remote state, the states that
\* mapFlyState does not know included, the poll does not end the call with
\* success.
C39_StopReturnsOnlyOnRemoteStopped ==
  [][\A c \in Callers :
       (/\ calls[c].op = "stopMoltbot"
        /\ calls[c].pc = "waitForState"
        /\ calls'[c].pc = "done"
        /\ calls'[c].outcome = "resolved")
         => fly[calls[c].appName].state = "stopped"]_vars

\* C40: when two hideSnapshot calls of two callers for different snapshot
\* ids of one instance have both resolved, with every remote request of both
\* served, the stored hidden set holds both ids, in whatever order their
\* metadata reads and writes took place.
C40_OverlappingHidesKeepBoth ==
  \A c, d \in Callers :
    (/\ Settled(c, {"hideSnapshot"}, "resolved")
     /\ Settled(d, {"hideSnapshot"}, "resolved")
     /\ ~calls[c].faulted
     /\ ~calls[d].faulted
     /\ calls[c].name = calls[d].name
     /\ calls[c].snapshotId # calls[d].snapshotId)
      => {calls[c].snapshotId, calls[d].snapshotId}
           \subseteq HiddenIds(fly[AppNameOf(calls[c].name)])
====
